---------------------------- MODULE Spec2Model ----------------------------
(***************************************************************************)
(* FreeBee (AT&T 3B1 emulator): the memory/bus subsystem (src/src/memory.c)*)
(* and the WD2797 floppy disc controller (src/src/wd279x.c).               *)
(*                                                                         *)
(* The machine state is one record, `state`, as in the source (a global    *)
(* struct); the FDC context is its field fdc_ctx.  Byte stores (RAM, map   *)
(* RAM, video RAM) are sparse functions offset -> byte, absent = 0.        *)
(***************************************************************************)
EXTENDS Integers, Sequences, FiniteSets, TLC

VARIABLES state, last, xfer, ops

vars == <<state, last, xfer, ops>>

(***************************************************************************)
(* Integer helpers: C's bit operators on naturals.                         *)
(***************************************************************************)
RECURSIVE And1(_, _)
And1(a, b) ==
    IF a = 0 \/ b = 0 THEN 0
    ELSE (IF a % 2 = 1 /\ b % 2 = 1 THEN 1 ELSE 0) + 2 * And1(a \div 2, b \div 2)

RECURSIVE Or1(_, _)
Or1(a, b) ==
    IF a = 0 THEN b
    ELSE IF b = 0 THEN a
    ELSE (IF a % 2 = 1 \/ b % 2 = 1 THEN 1 ELSE 0) + 2 * Or1(a \div 2, b \div 2)

\* the operators tabulated on four-bit digits
AndTab == [x \in 0..15 |-> [y \in 0..15 |-> And1(x, y)]]

OrTab == [x \in 0..15 |-> [y \in 0..15 |-> Or1(x, y)]]

\* a & b and a | b, for a, b >= 0
RECURSIVE BitAnd(_, _)
BitAnd(a, b) ==
    IF a = 0 \/ b = 0 THEN 0
    ELSE AndTab[a % 16][b % 16] + 16 * BitAnd(a \div 16, b \div 16)

RECURSIVE BitOr(_, _)
BitOr(a, b) ==
    IF a = 0 THEN b
    ELSE IF b = 0 THEN a
    ELSE OrTab[a % 16][b % 16] + 16 * BitOr(a \div 16, b \div 16)

Pow2(n) == 2 ^ n

Shr(a, n) == a \div Pow2(n)

Shl(a, n) == a * Pow2(n)

U8(x) == x % 256

U16(x) == x % 65536

\* a uint32_t is held as the integer of the same 32 bits in two's complement
\* (0xFFFFFFFF is -1): \div and % round down, so bit k of x is
\* (x \div 2^k) % 2 for either sign
Word32(hi, lo) == (IF hi >= 32768 THEN hi - 65536 ELSE hi) * 65536 + lo

Lo16(x) == x % 65536

Hi16(x) == (x \div 65536) % 65536

Min(a, b) == IF a < b THEN a ELSE b

Max(a, b) == IF a > b THEN a ELSE b

\* a null pointer (no buffer, no FILE)
NULL == <<>>

(***************************************************************************)
(* The disc image file: a sequence of bytes, byte offset o at index o+1.   *)
(***************************************************************************)
\* fseek(fp, pos); fread(buf, 1, n, fp): the bytes read (fewer at end of file)
fread(fp, pos, n) ==
    IF pos < 0 \/ pos >= Len(fp) THEN <<>>
    ELSE SubSeq(fp, pos + 1, Min(pos + n, Len(fp)))

\* fseek(fp, pos); fwrite(buf, 1, Len(bytes), fp): the file afterwards
fwrite(fp, pos, bytes) ==
    [i \in 1..Max(Len(fp), pos + Len(bytes)) |->
        IF i > pos /\ i <= pos + Len(bytes) THEN bytes[i - pos]
        ELSE IF i <= Len(fp) THEN fp[i]
        ELSE 0]

\* a malloc'ed buffer of n bytes; its bytes are indeterminate until written
UNINIT == 0 - 1

malloc(n) == [i \in 1..n |-> UNINIT]

\* buf with bytes stored from C index pos on
StoreBytes(buf, pos, bytes) ==
    [i \in 1..Len(buf) |->
        IF i > pos /\ i <= pos + Len(bytes) THEN bytes[i - pos] ELSE buf[i]]

(***************************************************************************)
(* WD2797 register numbers and command codes.                              *)
(***************************************************************************)
WD2797_REG_STATUS == 0

WD2797_REG_COMMAND == 0

WD2797_REG_TRACK == 1

WD2797_REG_SECTOR == 2

WD2797_REG_DATA == 3

CMD_MASK == 240

CMD_RESTORE == 0

CMD_SEEK == 16

CMD_STEP == 32

CMD_STEP_TU == 48

CMD_STEPIN == 64

CMD_STEPIN_TU == 80

CMD_STEPOUT == 96

CMD_STEPOUT_TU == 112

CMD_READ_SECTOR == 128

CMD_READ_SECTOR_MULTI == 144

CMD_WRITE_SECTOR == 160

CMD_WRITE_SECTOR_MULTI == 176

CMD_READ_ADDRESS == 192

CMD_FORCE_INTERRUPT == 208

CMD_READ_TRACK == 224

CMD_FORMAT_TRACK == 240

\* data_len of a FORMAT TRACK transfer
FORMAT_TRACK_LEN == 7170

(***************************************************************************)
(* The FDC context.  `ub` is a ghost flag: the code has stored through a   *)
(* null or out-of-range buffer pointer (undefined behaviour).              *)
(***************************************************************************)
\* the context as the zero-initialised global holds it before wd2797_init
\* (wd2797_init leaves writeable and write_pos as they are)
ZeroCtx ==
    [track |-> 0, head |-> 0, sector |-> 0, track_reg |-> 0,
     irq |-> FALSE, data_pos |-> 0, data_len |-> 0, data |-> NULL,
     status |-> 0, cmd_has_drq |-> FALSE, formatting |-> FALSE,
     data_reg |-> 0, last_step_dir |-> 0, disc_image |-> NULL,
     geom_secsz |-> 0, geom_spt |-> 0, geom_heads |-> 0, geom_tracks |-> 0,
     writeable |-> FALSE, write_pos |-> 0, ub |-> FALSE]

wd2797_init(ctx) ==
    [ctx EXCEPT !.track = 0, !.head = 0, !.sector = 0, !.track_reg = 0,
                !.irq = FALSE, !.data_pos = 0, !.data_len = 0, !.data = NULL,
                !.status = 0, !.cmd_has_drq = FALSE, !.formatting = FALSE,
                !.data_reg = 0, !.last_step_dir = -1, !.disc_image = NULL,
                !.geom_secsz = 0, !.geom_spt = 0, !.geom_heads = 0,
                !.geom_tracks = 0]

wd2797_reset(ctx) ==
    [ctx EXCEPT !.track = 0, !.head = 0, !.sector = 0, !.track_reg = 0,
                !.irq = FALSE, !.data_pos = 0, !.data_len = 0,
                !.status = 0, !.data_reg = 0, !.last_step_dir = -1]

wd2797_get_irq(ctx) == ctx.irq

wd2797_get_drq(ctx) == ctx.data_pos < ctx.data_len

\* the result: [ctx, err]; fp is the file's contents, oom: malloc fails
wd2797_load(ctx, fp, secsz, spt, heads, writeable, oom) ==
    LET tracks == ((Len(fp) \div secsz) \div spt) \div heads
    IN  IF tracks < 1 THEN [ctx |-> ctx, err |-> "WD2797_ERR_BAD_GEOM"]
        ELSE IF oom THEN [ctx |-> [ctx EXCEPT !.data = NULL],
                          err |-> "WD2797_ERR_NO_MEMORY"]
        ELSE [ctx |-> [ctx EXCEPT !.data = malloc(secsz * spt),
                                  !.disc_image = fp,
                                  !.geom_tracks = tracks,
                                  !.geom_secsz = secsz,
                                  !.geom_heads = heads,
                                  !.geom_spt = spt,
                                  !.writeable = writeable],
              err |-> "WD2797_ERR_OK"]

wd2797_unload(ctx) ==
    [ctx EXCEPT !.data = NULL, !.disc_image = NULL,
                !.geom_tracks = 0, !.geom_secsz = 0,
                !.geom_spt = 0, !.geom_heads = 0]

\* the buffer byte at C index pos is indeterminate (never written, or outside
\* the allocation)
Indeterminate(ctx, pos) ==
    pos + 1 > Len(ctx.data) \/ ctx.data[pos + 1] = UNINIT

\* what a read of an indeterminate byte may yield
JunkBytes == {0, 238}

\* the values the next register access may draw for an indeterminate byte:
\* a choice only where the access reads one
JunkChoices(ctx) ==
    IF /\ ctx.data_pos < ctx.data_len
       /\ \E pos \in 0..Min(ctx.data_len, Len(ctx.data) + 1) - 1 :
             Indeterminate(ctx, pos)
    THEN JunkBytes ELSE {0}

\* a variant of the status byte without bit 0x80 while bytes remain
StatusByte_busy_only(ctx) ==
    LET drq == ctx.data_pos < ctx.data_len
        t1  == IF ctx.cmd_has_drq
               THEN BitOr(BitAnd(ctx.status, 252), IF drq THEN 2 ELSE 0)
               ELSE BitAnd(ctx.status, 254)
    IN  BitOr(t1, IF drq THEN 1 ELSE 0)

\* the status byte a STATUS read returns
StatusByte(ctx) ==
    LET drq == ctx.data_pos < ctx.data_len
        t1  == IF ctx.cmd_has_drq
               THEN BitOr(BitAnd(ctx.status, 252), IF drq THEN 2 ELSE 0)
               ELSE BitAnd(ctx.status, 254)
    IN  BitOr(t1, IF drq THEN 129 ELSE 0)

\* a variant of wd2797_read_reg whose STATUS read leaves the interrupt pending
wd2797_read_reg_keep_irq(ctx, addr, junk) ==
    LET a == addr % 4
    IN  IF a = WD2797_REG_STATUS
        THEN [ctx |-> ctx, ret |-> StatusByte(ctx)]
        ELSE IF a = WD2797_REG_TRACK
        THEN [ctx |-> ctx, ret |-> U8(ctx.track_reg)]
        ELSE IF a = WD2797_REG_SECTOR
        THEN [ctx |-> ctx, ret |-> U8(ctx.sector)]
        ELSE IF ctx.data_pos < ctx.data_len
             THEN [ctx |-> [ctx EXCEPT
                              !.irq = IF ctx.data_pos = ctx.data_len - 1
                                      THEN TRUE ELSE ctx.irq,
                              !.data_pos = ctx.data_pos + 1],
                   ret |-> IF Indeterminate(ctx, ctx.data_pos) THEN junk
                           ELSE ctx.data[ctx.data_pos + 1]]
             ELSE [ctx |-> ctx, ret |-> ctx.data_reg]

\* the result: [ctx, ret]; junk is the byte an indeterminate read yields
wd2797_read_reg(ctx, addr, junk) ==
    LET a == addr % 4
    IN  IF a = WD2797_REG_STATUS
        THEN [ctx |-> [ctx EXCEPT !.irq = FALSE],
              ret |-> StatusByte([ctx EXCEPT !.irq = FALSE])]
        ELSE IF a = WD2797_REG_TRACK
        THEN [ctx |-> ctx, ret |-> U8(ctx.track_reg)]
        ELSE IF a = WD2797_REG_SECTOR
        THEN [ctx |-> ctx, ret |-> U8(ctx.sector)]
        ELSE IF ctx.data_pos < ctx.data_len
             THEN LET i == ctx.data_pos + 1
                      b == IF Indeterminate(ctx, ctx.data_pos) THEN junk
                           ELSE ctx.data[i]
                  IN  [ctx |-> [ctx EXCEPT
                                  !.irq = IF ctx.data_pos = ctx.data_len - 1
                                          THEN TRUE ELSE ctx.irq,
                                  !.data_pos = ctx.data_pos + 1],
                       ret |-> b]
             ELSE [ctx |-> ctx, ret |-> ctx.data_reg]

\* bit 1 of the command byte selects the head
HeadOf(val) == IF (val \div 2) % 2 = 1 THEN 1 ELSE 0

\* a variant of the Type-1 tail that does not terminate the transfer
Type1Done_keep_transfer(ctx) ==
    [ctx EXCEPT !.cmd_has_drq = FALSE,
                !.status = BitOr(32, IF ctx.track = 0 THEN 4 ELSE 0),
                !.irq = TRUE]

\* a variant of the Type-1 tail that never reports track 0
Type1Done_no_trk0(ctx) ==
    [ctx EXCEPT !.data_len = 0, !.data_pos = 0,
                !.cmd_has_drq = FALSE,
                !.status = 32,
                !.irq = TRUE]

\* the tail every Type-1 command shares (is_type1)
Type1Done(ctx) ==
    [ctx EXCEPT !.data_len = 0, !.data_pos = 0,
                !.cmd_has_drq = FALSE,
                !.status = BitOr(32, IF ctx.track = 0 THEN 4 ELSE 0),
                !.irq = TRUE]

\* a variant of SEEK that goes on to step in the last direction used
SeekCase_then_step(ctx) ==
    IF ctx.data_reg < ctx.geom_tracks
    THEN [ctx EXCEPT !.track = Max(0, ctx.data_reg + ctx.last_step_dir),
                     !.track_reg = ctx.data_reg]
    ELSE [ctx EXCEPT !.status = 16]

\* case CMD_SEEK up to its missing break
SeekCase(ctx) ==
    IF ctx.data_reg < ctx.geom_tracks
    THEN [ctx EXCEPT !.track = ctx.data_reg, !.track_reg = ctx.data_reg]
    ELSE [ctx EXCEPT !.status = 16]

\* case CMD_STEPIN .. CMD_STEPOUT_TU
StepCase(ctx, cmd) ==
    LET base == cmd - ((cmd \div 16) % 2) * 16            \* cmd & ~0x10
        dir  == IF base = CMD_STEPIN THEN 1
                ELSE IF base = CMD_STEPOUT THEN -1
                ELSE ctx.last_step_dir
        t1   == ctx.track + dir
        t2   == IF t1 < 0 THEN 0 ELSE t1
        over == t2 >= ctx.geom_tracks
        t3   == IF over THEN ctx.geom_tracks - 1 ELSE t2
    IN  [ctx EXCEPT !.last_step_dir = dir,
                    !.status = IF over THEN 16 ELSE ctx.status,
                    !.track = t3,
                    !.track_reg = IF (cmd \div 16) % 2 = 1 THEN t3
                                  ELSE ctx.track_reg]

\* the sector-size code of a READ ADDRESS record
SizeCode(secsz) ==
    IF secsz = 128 THEN 0
    ELSE IF secsz = 256 THEN 1
    ELSE IF secsz = 512 THEN 2
    ELSE IF secsz = 1024 THEN 3
    ELSE 255

ReadAddressCase(ctx, val) ==
    LET hd  == HeadOf(val)
        rec == <<U8(ctx.track), hd, U8(ctx.sector),
                 SizeCode(ctx.geom_secsz), 0, 0>>
    IN  [ctx EXCEPT !.head = hd, !.data_pos = 0, !.data_len = 6,
                    !.data = StoreBytes(ctx.data, 0, rec),
                    !.ub = ctx.ub \/ Len(ctx.data) < 6,
                    !.status = 2]

\* the read loop of READ SECTOR: sectors i..n-1 appended to the buffer
RECURSIVE ReadLoop(_, _, _)
ReadLoop(ctx, i, n) ==
    IF i >= n THEN ctx
    ELSE LET lba == (((ctx.track * ctx.geom_heads * ctx.geom_spt)
                      + (ctx.head * ctx.geom_spt) + ctx.sector) + i) - 1
             got == fread(ctx.disc_image, lba * ctx.geom_secsz, ctx.geom_secsz)
         IN  ReadLoop([ctx EXCEPT
                         !.data = StoreBytes(ctx.data, ctx.data_len, got),
                         !.ub = ctx.ub \/ ctx.data_len + Len(got) > Len(ctx.data),
                         !.data_len = ctx.data_len + Len(got)],
                      i + 1, n)

\* a variant of READ SECTOR that ignores the head-select bit of the command
ReadSectorCase_same_head(ctx, cmd, val) ==
    IF \/ ctx.track > ctx.geom_tracks - 1
       \/ ctx.head > ctx.geom_heads - 1
       \/ ctx.sector > ctx.geom_spt
       \/ ctx.sector = 0
    THEN [ctx EXCEPT !.status = 16, !.irq = TRUE]
    ELSE LET temp == IF cmd = CMD_READ_SECTOR_MULTI THEN ctx.geom_spt ELSE 1
             c2   == ReadLoop([ctx EXCEPT !.data_pos = 0, !.data_len = 0],
                              0, temp)
         IN  [c2 EXCEPT !.status = IF c2.data_pos < c2.data_len THEN 2 ELSE 0]

ReadSectorCase(ctx, cmd, val) ==
    LET c1 == [ctx EXCEPT !.head = HeadOf(val)]
    IN  IF \/ c1.track > c1.geom_tracks - 1
           \/ c1.head > c1.geom_heads - 1
           \/ c1.sector > c1.geom_spt
           \/ c1.sector = 0
        THEN [c1 EXCEPT !.status = 16, !.irq = TRUE]
        ELSE LET temp == IF cmd = CMD_READ_SECTOR_MULTI THEN c1.geom_spt ELSE 1
                 c2   == ReadLoop([c1 EXCEPT !.data_pos = 0, !.data_len = 0],
                                  0, temp)
             IN  [c2 EXCEPT !.status = IF c2.data_pos < c2.data_len
                                       THEN 2 ELSE 0]

WriteSectorCase(ctx, cmd, val) ==
    LET hd   == HeadOf(val)
        temp == IF cmd = CMD_WRITE_SECTOR_MULTI THEN ctx.geom_spt ELSE 1
        len  == temp * ctx.geom_secsz
        lba  == (((ctx.track * ctx.geom_heads * ctx.geom_spt)
                  + (hd * ctx.geom_spt) + ctx.sector)) - 1
    IN  [ctx EXCEPT !.head = hd, !.data_pos = 0, !.data_len = len,
                    !.write_pos = lba * ctx.geom_secsz,
                    !.status = IF 0 < len THEN 2 ELSE 0]

FormatTrackCase(ctx, val) ==
    [ctx EXCEPT !.head = HeadOf(val), !.data_pos = 0,
                !.data_len = FORMAT_TRACK_LEN,
                !.status = 2, !.formatting = TRUE]

\* cmd is val & 0xF0, so (cmd & 8) is never set
ForceInterruptCase(ctx, cmd) ==
    LET s1 == IF ~ctx.writeable THEN BitOr(32, 64) ELSE 32
        s2 == IF ctx.track = 0 THEN 4 ELSE s1
    IN  [ctx EXCEPT !.status = s2, !.data_pos = 0, !.data_len = 0,
                    !.irq = IF (cmd \div 8) % 2 = 1 THEN TRUE ELSE ctx.irq]

\* a variant of the not-ready exit that recalibrates the head
NotReadyCase_restore(ctx) ==
    [ctx EXCEPT !.status = 128, !.irq = TRUE, !.track = 0, !.track_reg = 0]

\* if (ctx->disc_image == NULL): no disc image, the drive is not ready
NotReadyCase(ctx) == [ctx EXCEPT !.status = 128, !.irq = TRUE]

\* case WD2797_REG_COMMAND
CommandWrite(ctx, val) ==
    LET cmd == BitAnd(val, CMD_MASK)
        c0  == [ctx EXCEPT !.irq = FALSE]
    IN  IF c0.disc_image = NULL
        THEN NotReadyCase(c0)
        ELSE IF cmd = CMD_RESTORE
        THEN Type1Done([c0 EXCEPT !.track = 0, !.track_reg = 0])
        ELSE IF cmd = CMD_SEEK
        THEN Type1Done(SeekCase(c0))
        ELSE IF cmd = CMD_STEP
        THEN Type1Done(c0)
        ELSE IF cmd \in {CMD_STEPIN, CMD_STEPOUT, CMD_STEP_TU,
                         CMD_STEPIN_TU, CMD_STEPOUT_TU}
        THEN Type1Done(StepCase(c0, cmd))
        ELSE LET c1 == [c0 EXCEPT !.cmd_has_drq = TRUE]
             IN  IF ~c1.writeable /\ cmd \in {CMD_WRITE_SECTOR,
                                              CMD_WRITE_SECTOR_MULTI,
                                              CMD_FORMAT_TRACK}
                 THEN [c1 EXCEPT !.status = 64, !.irq = TRUE]
                 ELSE IF cmd = CMD_READ_ADDRESS
                 THEN ReadAddressCase(c1, val)
                 ELSE IF cmd \in {CMD_READ_SECTOR, CMD_READ_SECTOR_MULTI}
                 THEN ReadSectorCase(c1, cmd, val)
                 ELSE IF cmd = CMD_READ_TRACK
                 THEN [c1 EXCEPT !.irq = TRUE, !.status = 16]
                 ELSE IF cmd \in {CMD_WRITE_SECTOR, CMD_WRITE_SECTOR_MULTI}
                 THEN WriteSectorCase(c1, cmd, val)
                 ELSE IF cmd = CMD_FORMAT_TRACK
                 THEN FormatTrackCase(c1, val)
                 ELSE ForceInterruptCase(c1, cmd)

\* the buffer's first n bytes as fwrite sends them (indeterminate bytes: junk)
BufferBytes(ctx, n, junk) ==
    [i \in 1..n |-> IF Indeterminate(ctx, i - 1) THEN junk ELSE ctx.data[i]]

\* case WD2797_REG_DATA
DataWrite(ctx, val, junk) ==
    LET c0 == [ctx EXCEPT !.data_reg = val]
    IN  IF c0.data_pos < c0.data_len /\ (c0.write_pos >= 0 \/ c0.formatting)
        THEN LET inb == c0.data_pos + 1 <= Len(c0.data)
                 c1  == IF c0.formatting THEN c0
                        ELSE IF inb
                        THEN [c0 EXCEPT !.data[c0.data_pos + 1] = val]
                        ELSE [c0 EXCEPT !.ub = TRUE]
                 c2  == [c1 EXCEPT !.data_pos = c1.data_pos + 1]
             IN  IF c2.data_pos = c2.data_len
                 THEN LET c3 == IF c2.formatting THEN c2
                                ELSE IF c2.disc_image = NULL
                                THEN [c2 EXCEPT !.ub = TRUE]
                                ELSE [c2 EXCEPT
                                        !.disc_image =
                                            fwrite(c2.disc_image, c2.write_pos,
                                                   BufferBytes(c2, c2.data_len, junk)),
                                        !.ub = c2.ub \/ c2.data_len > Len(c2.data)]
                      IN  [c3 EXCEPT !.irq = TRUE, !.write_pos = -1,
                                     !.formatting = FALSE]
                 ELSE c2
        ELSE c0

\* val is a uint8_t; junk is the value of an indeterminate buffer byte
wd2797_write_reg(ctx, addr, val, junk) ==
    IF addr = WD2797_REG_COMMAND THEN CommandWrite(ctx, val)
    ELSE IF addr = WD2797_REG_TRACK
    THEN [ctx EXCEPT !.track = val, !.track_reg = val]
    ELSE IF addr = WD2797_REG_SECTOR
    THEN [ctx EXCEPT !.sector = val]
    ELSE IF addr = WD2797_REG_DATA THEN DataWrite(ctx, val, junk)
    ELSE ctx

wd2797_dma_miss(ctx) ==
    [ctx EXCEPT !.data_pos = ctx.data_len, !.write_pos = 0,
                !.status = 4, !.irq = TRUE]

(***************************************************************************)
(* Byte stores and the big-endian access macros.                           *)
(***************************************************************************)
Get(arr, i) == IF i \in DOMAIN arr THEN arr[i] ELSE 0

Put(arr, i, b) ==
    [x \in (DOMAIN arr \cup {i}) \ (IF b = 0 THEN {i} ELSE {}) |->
        IF x = i THEN b ELSE arr[x]]

RD8(array, address, andmask) == Get(array, BitAnd(address, andmask))

RD16(array, address, andmask) ==
    RD8(array, address, andmask) * 256 + RD8(array, address + 1, andmask)

RD32(array, address, andmask) ==
    Word32(RD16(array, address, andmask), RD16(array, address + 2, andmask))

WR8(array, address, andmask, value) ==
    Put(array, BitAnd(address, andmask), U8(value))

WR16(array, address, andmask, value) ==
    WR8(WR8(array, address, andmask, Shr(value, 8)),
        address + 1, andmask, value)

WR32(array, address, andmask, value) ==
    WR16(WR16(array, address, andmask, Hi16(value)),
         address + 2, andmask, Lo16(value))

RDn(bits, array, address, andmask) ==
    IF bits = 8 THEN RD8(array, address, andmask)
    ELSE IF bits = 16 THEN RD16(array, address, andmask)
    ELSE RD32(array, address, andmask)

WRn(bits, array, address, andmask, value) ==
    IF bits = 8 THEN WR8(array, address, andmask, value)
    ELSE IF bits = 16 THEN WR16(array, address, andmask, value)
    ELSE WR32(array, address, andmask, value)

\* all-ones of a width
Ones(bits) == IF bits = 32 THEN Word32(65535, 65535) ELSE Pow2(bits) - 1

ROM_SIZE == 32768

\* the loaded ROM image: eight distinct bytes, then zeroes
rom == [i \in 0..7 |-> 17 * (i + 1)]

(***************************************************************************)
(* Memory mapping (memory.c).                                              *)
(***************************************************************************)
MAPRAM(st, addr) == Get(st.map, addr * 2) * 256 + Get(st.map, addr * 2 + 1)

PageOf(addr) == Shr(addr, 12) % 1024

\* the result: [state, ret]
\* a variant of mapAddr that leaves the page status bits alone
mapAddr_no_status(st, addr, writing) ==
    IF addr < 4194304
    THEN [state |-> st,
          ret   |-> Shl(MAPRAM(st, PageOf(addr)) % 1024, 12) + (addr % 4096)]
    ELSE [state |-> st, ret |-> addr]

\* a variant of mapAddr that marks a written page accessed but not dirty
mapAddr_no_dirty(st, addr, writing) ==
    IF addr < 4194304
    THEN LET page == PageOf(addr)
             hi   == Get(st.map, page * 2)
             map2 == IF Shr(MAPRAM(st, page), 13) % 4 # 0
                     THEN Put(st.map, page * 2, BitOr(hi, 64))
                     ELSE st.map
         IN  [state |-> [st EXCEPT !.map = map2],
              ret   |-> Shl(MAPRAM(st, page) % 1024, 12) + (addr % 4096)]
    ELSE [state |-> st, ret |-> addr]

mapAddr(st, addr, writing) ==
    IF addr < 4194304
    THEN LET page          == PageOf(addr)
             new_page_addr == MAPRAM(st, page) % 1024
             pagebits      == Shr(MAPRAM(st, page), 13) % 4
             hi            == Get(st.map, page * 2)
             map2 == IF pagebits # 0
                     THEN Put(st.map, page * 2,
                              BitOr(hi, IF writing THEN 96 ELSE 64))
                     ELSE st.map
         IN  [state |-> [st EXCEPT !.map = map2],
              ret   |-> Shl(new_page_addr, 12) + (addr % 4096)]
    ELSE [state |-> st, ret |-> addr]

\* sr: the CPU's status register (m68k_get_reg(NULL, M68K_REG_SR))
Supervisor(sr) == Shr(sr, 13) % 2 = 1

\* a variant of checkMemoryAccess whose 4 MiB limit is off by one
checkMemoryAccess_uie_above(st, sr, addr, writing) ==
    IF Supervisor(sr) THEN "MEM_ALLOWED"
    ELSE IF addr > 4194304 THEN "MEM_UIE"
    ELSE LET pagebits == Shr(MAPRAM(st, PageOf(addr)), 13) % 8
         IN  IF pagebits % 4 = 0 THEN "MEM_PAGEFAULT"
             ELSE IF Shr(addr, 19) % 16 = 0 THEN "MEM_KERNEL"
             ELSE IF writing /\ Shr(pagebits, 2) % 2 = 0 THEN "MEM_PAGE_NO_WE"
             ELSE "MEM_ALLOWED"

checkMemoryAccess(st, sr, addr, writing) ==
    IF Supervisor(sr) THEN "MEM_ALLOWED"
    ELSE IF addr >= 4194304 THEN "MEM_UIE"
    ELSE LET page     == PageOf(addr)
             pagebits == Shr(MAPRAM(st, page), 13) % 8
         IN  IF pagebits % 4 = 0 THEN "MEM_PAGEFAULT"
             ELSE IF Shr(addr, 19) % 16 = 0 THEN "MEM_KERNEL"
             ELSE IF writing /\ Shr(pagebits, 2) % 2 = 0 THEN "MEM_PAGE_NO_WE"
             ELSE "MEM_ALLOWED"

\* the fault registers of a bus error (the shared tail of both macros)
FaultRegs(st, address, bits) ==
    LET b0 == IF bits >= 16 THEN 31744
              ELSE IF address % 2 = 1 THEN 32000 ELSE 32256
    IN  [st EXCEPT !.bsr0 = U16(BitOr(b0, Shr(address, 16))),
                   !.bsr1 = address % 65536]

\* a variant of ACCESS_CHECK_WR that lets the mapper mark the page before the
\* bus error is raised
ACCESS_CHECK_WR_marks_page(st, sr, address, bits) ==
    LET v  == checkMemoryAccess(st, sr, address, TRUE)
        s1 == IF v = "MEM_PAGEFAULT"
              THEN [st EXCEPT !.genstat = BitOr(35839, IF st.pie THEN 1024 ELSE 0)]
              ELSE IF v = "MEM_UIE"
              THEN [st EXCEPT !.genstat = BitOr(39679, IF st.pie THEN 1024 ELSE 0)]
              ELSE st
    IN  IF v = "MEM_ALLOWED" THEN [state |-> st, fault |-> FALSE]
        ELSE [state |-> FaultRegs(mapAddr(s1, address, TRUE).state, address, bits),
              fault |-> TRUE]

\* the result of both macros: [state, fault]
ACCESS_CHECK_WR(st, sr, address, bits) ==
    LET v  == checkMemoryAccess(st, sr, address, TRUE)
        s1 == IF v = "MEM_PAGEFAULT"
              THEN [st EXCEPT !.genstat = BitOr(35839, IF st.pie THEN 1024 ELSE 0)]
              ELSE IF v = "MEM_UIE"
              THEN [st EXCEPT !.genstat = BitOr(39679, IF st.pie THEN 1024 ELSE 0)]
              ELSE st
    IN  IF v = "MEM_ALLOWED" THEN [state |-> st, fault |-> FALSE]
        ELSE [state |-> FaultRegs(s1, address, bits), fault |-> TRUE]

\* a variant of ACCESS_CHECK_RD that leaves the PIE bit out of genstat
ACCESS_CHECK_RD_no_pie(st, sr, address, bits) ==
    LET v  == checkMemoryAccess(st, sr, address, FALSE)
        s1 == IF v = "MEM_PAGEFAULT" THEN [st EXCEPT !.genstat = 52223]
              ELSE IF v = "MEM_UIE" THEN [st EXCEPT !.genstat = 56063]
              ELSE st
    IN  IF v = "MEM_ALLOWED" THEN [state |-> st, fault |-> FALSE]
        ELSE [state |-> FaultRegs(s1, address, bits), fault |-> TRUE]

ACCESS_CHECK_RD(st, sr, address, bits) ==
    LET v  == checkMemoryAccess(st, sr, address, FALSE)
        s1 == IF v = "MEM_PAGEFAULT"
              THEN [st EXCEPT !.genstat = BitOr(52223, IF st.pie THEN 1024 ELSE 0)]
              ELSE IF v = "MEM_UIE"
              THEN [st EXCEPT !.genstat = BitOr(56063, IF st.pie THEN 1024 ELSE 0)]
              ELSE st
    IN  IF v = "MEM_ALLOWED" THEN [state |-> st, fault |-> FALSE]
        ELSE [state |-> FaultRegs(s1, address, bits), fault |-> TRUE]

(***************************************************************************)
(* I/O register file (memory.c, IoWrite / IoRead).                         *)
(***************************************************************************)
\* address & 0x0F0000, as the register number of zone A
ZoneAReg(address) == Shr(address, 16) % 16

\* a variant of case 0x060000 that does not count the extra transfer
CaseDmaCount_no_increment(st, address, data) ==
    LET idmarw == Shr(data, 14) % 2 = 1
        s1 == [st EXCEPT !.dma_count = data % 16384,
                         !.idmarw = idmarw,
                         !.dmaen = Shr(data, 15) % 2 = 1]
        m  == mapAddr(s1, address, TRUE)
    IN  IF ~idmarw
        THEN [m.state EXCEPT !.base_ram =
                WR32(m.state.base_ram, m.ret,
                     m.state.base_ram_size - 1, 57005)]
        ELSE s1

\* case 0x060000: DMA Count
CaseDmaCount(st, address, data) ==
    LET idmarw == Shr(data, 14) % 2 = 1
        s1 == [st EXCEPT !.dma_count = data % 16384,
                         !.idmarw = idmarw,
                         !.dmaen = Shr(data, 15) % 2 = 1]
        m  == mapAddr(s1, address, TRUE)
        s2 == IF ~idmarw
              THEN [m.state EXCEPT !.base_ram =
                      WR32(m.state.base_ram, m.ret,
                           m.state.base_ram_size - 1, 57005)]
              ELSE s1
    IN  [s2 EXCEPT !.dma_count = s2.dma_count + 1]

\* a variant of case 0x0C0000 that clears the general status register only
CaseClrStat_genstat_only(st) == [st EXCEPT !.genstat = 65535]

\* case 0x0C0000: Clear Status Register
CaseClrStat(st) ==
    [st EXCEPT !.genstat = 65535, !.bsr0 = 65535, !.bsr1 = 65535]

\* a variant of case 0x0E0000 that resets the controller when bit 7 is set
CaseDiskCon_inverted(st, data) ==
    IF Shr(data, 7) % 2 = 1
    THEN [st EXCEPT !.fdc_ctx = wd2797_reset(st.fdc_ctx)]
    ELSE st

\* case 0x0E0000: Disk Control Register
CaseDiskCon(st, data) ==
    IF Shr(data, 7) % 2 = 0
    THEN [st EXCEPT !.fdc_ctx = wd2797_reset(st.fdc_ctx)]
    ELSE st

\* a variant of case 0x0D0000 whose high-half write clears the low half
CaseDmaAddr_high_clears_low(st, address) ==
    IF Shr(address, 14) % 2 = 1
    THEN [st EXCEPT !.dma_address = Shl(BitAnd(address, 16382), 8)]
    ELSE [st EXCEPT !.dma_address =
            BitOr(BitAnd(st.dma_address, 4193792), BitAnd(address, 510))]

\* case 0x0D0000: DMA Address Register
CaseDmaAddr(st, address) ==
    IF Shr(address, 14) % 2 = 1
    THEN [st EXCEPT !.dma_address =
            BitOr(BitAnd(st.dma_address, 510),
                  Shl(BitAnd(address, 16382), 8))]
    ELSE [st EXCEPT !.dma_address =
            BitOr(BitAnd(st.dma_address, 4193792), BitAnd(address, 510))]

IoWriteZoneA(st, address, data, bits) ==
    LET r == ZoneAReg(address)
    IN  IF r = 1                                   \* General Status Register
        THEN IF bits = 16 THEN [st EXCEPT !.genstat = data % 65536]
             ELSE IF bits = 8 THEN [st EXCEPT !.genstat = U16(Shl(data, 8))]
             ELSE st
        ELSE IF r = 6                              \* DMA Count
        THEN CaseDmaCount(st, address, data)
        ELSE IF r = 10                             \* Miscellaneous Control
        THEN [st EXCEPT !.dma_reading = Shr(data, 14) % 2 = 1,
                        !.leds = 15 - (Shr(data, 8) % 16)]
        ELSE IF r = 12                             \* Clear Status Register
        THEN CaseClrStat(st)
        ELSE IF r = 13                             \* DMA Address Register
        THEN CaseDmaAddr(st, address)
        ELSE IF r = 14                             \* Disk Control Register
        THEN CaseDiskCon(st, data)
        ELSE st

IoWriteZoneB(st, address, data, bits, junk) ==
    IF Shr(address, 20) % 16 \in {14, 15}
    THEN LET r == Shr(address, 16) % 8             \* address & 0x070000
         IN  IF r = 1                              \* WD2797
             THEN [st EXCEPT !.fdc_ctx =
                     wd2797_write_reg(st.fdc_ctx, Shr(address, 1) % 4,
                                      U8(data), junk)]
             ELSE IF r = 4                         \* General Control Register
             THEN IF Shr(address, 12) % 8 = 1      \* PIE
                  THEN [st EXCEPT !.pie = Shr(data, 15) % 2 = 1]
                  ELSE IF Shr(address, 12) % 8 = 3 \* ROMLMAP
                  THEN [st EXCEPT !.romlmap = Shr(data, 15) % 2 = 1]
                  ELSE st
             ELSE st
    ELSE st

IoWrite(st, address, data, bits, junk) ==
    IF address >= 4194304 /\ address <= 8388607
    THEN IoWriteZoneA(st, address, data, bits)
    ELSE IF address >= 12582912 /\ address <= 16777215
    THEN IoWriteZoneB(st, address, data, bits, junk)
    ELSE st

\* the result: [state, data]
IoRead(st, address, bits, junk) ==
    LET none == [state |-> st, data |-> Ones(32)]
    IN  IF address >= 4194304 /\ address <= 8388607
        THEN LET r == ZoneAReg(address)
             IN  IF r = 1 THEN [state |-> st,
                                data |-> Word32(st.genstat, st.genstat)]
                 ELSE IF r = 3 THEN [state |-> st,
                                     data |-> Word32(st.bsr0, st.bsr0)]
                 ELSE IF r = 4 THEN [state |-> st,
                                     data |-> Word32(st.bsr1, st.bsr1)]
                 ELSE IF r = 6 THEN [state |-> st,
                                     data |-> BitOr(st.dma_count % 16384, 49152)]
                 ELSE IF r = 7 THEN [state |-> st,
                                     data |-> BitOr(1179666,
                                                IF st.fdc_ctx.irq
                                                THEN 524296 ELSE 0)]
                 ELSE none
        ELSE IF /\ address >= 12582912 /\ address <= 16777215
                /\ Shr(address, 20) % 16 \in {14, 15}
                /\ Shr(address, 16) % 8 = 1
        THEN LET r == wd2797_read_reg(st.fdc_ctx, Shr(address, 1) % 4, junk)
             IN  [state |-> [st EXCEPT !.fdc_ctx = r.ctx], data |-> r.ret]
        ELSE none

(***************************************************************************)
(* The CPU's bus cycles (memory.c, m68k_read_memory_N/m68k_write_memory_N).*)
(***************************************************************************)
\* if (!state.romlmap) address |= 0x800000
\* a variant of RomOverlay that never forces the cycle into ROM space
RomOverlay_off(st, address) == address

RomOverlay(st, address) ==
    IF ~st.romlmap /\ Shr(address, 23) % 2 = 0 THEN address + 8388608
    ELSE address

\* the dispatch of a read after the access check; the result: [state, data]
ReadDispatch(bits, st, address, junk) ==
    IF address >= 8388608 /\ address <= 12582911
    THEN [state |-> st, data |-> RDn(bits, rom, address, ROM_SIZE - 1)]
    ELSE IF address <= 4194303
    THEN LET m == mapAddr(st, address, FALSE)
         IN  IF m.ret <= 2097151
             THEN [state |-> m.state,
                   data  |-> RDn(bits, m.state.base_ram, m.ret,
                                 m.state.base_ram_size - 1)]
             ELSE IF m.ret <= m.state.exp_ram_size + 2097152 - 1
             THEN [state |-> m.state,
                   data  |-> RDn(bits, m.state.exp_ram, m.ret - 2097152,
                                 m.state.exp_ram_size - 1)]
             ELSE [state |-> m.state, data |-> Ones(bits)]
    ELSE IF address >= 4194304 /\ address <= 8388607 /\ ZoneAReg(address) = 0
    THEN [state |-> st, data |-> RDn(bits, st.map, address, 2047)]
    ELSE IF address >= 4194304 /\ address <= 8388607 /\ ZoneAReg(address) = 2
    THEN [state |-> st, data |-> RDn(bits, st.vram, address, 32767)]
    ELSE LET r == IoRead(st, address, bits, junk)
         IN  [state |-> r.state,
              data  |-> IF bits = 32 THEN r.data ELSE r.data % Pow2(bits)]

\* a variant of WriteDispatch that sends every RAM write to base RAM
WriteDispatch_base_only(bits, st, address, value, junk) ==
    IF address >= 8388608 /\ address <= 12582911
    THEN st
    ELSE IF address <= 4194303
    THEN LET m == mapAddr(st, address, TRUE)
         IN  [m.state EXCEPT !.base_ram =
                 WRn(bits, m.state.base_ram, m.ret,
                     m.state.base_ram_size - 1, value)]
    ELSE IF address >= 4194304 /\ address <= 8388607 /\ ZoneAReg(address) = 0
    THEN [st EXCEPT !.map = WRn(bits, st.map, address, 2047, value)]
    ELSE IF address >= 4194304 /\ address <= 8388607 /\ ZoneAReg(address) = 2
    THEN [st EXCEPT !.vram = WRn(bits, st.vram, address, 32767, value)]
    ELSE IoWrite(st, address, value, bits, junk)

\* the dispatch of a write after the access check; the result: the state
WriteDispatch(bits, st, address, value, junk) ==
    IF address >= 8388608 /\ address <= 12582911
    THEN st
    ELSE IF address <= 4194303
    THEN LET m == mapAddr(st, address, TRUE)
         IN  IF m.ret <= 2097151
             THEN [m.state EXCEPT !.base_ram =
                     WRn(bits, m.state.base_ram, m.ret,
                         m.state.base_ram_size - 1, value)]
             ELSE [m.state EXCEPT !.exp_ram =
                     WRn(bits, m.state.exp_ram, m.ret - 2097152,
                         m.state.exp_ram_size - 1, value)]
    ELSE IF address >= 4194304 /\ address <= 8388607 /\ ZoneAReg(address) = 0
    THEN [st EXCEPT !.map = WRn(bits, st.map, address, 2047, value)]
    ELSE IF address >= 4194304 /\ address <= 8388607 /\ ZoneAReg(address) = 2
    THEN [st EXCEPT !.vram = WRn(bits, st.vram, address, 32767, value)]
    ELSE IoWrite(st, address, value, bits, junk)

\* the result: [state, data, fault]; fault: m68k_pulse_bus_error was called
m68k_read_memory(bits, st, sr, addr, junk) ==
    LET address == RomOverlay(st, addr)
        chk     == ACCESS_CHECK_RD(st, sr, address, bits)
    IN  IF chk.fault
        THEN [state |-> chk.state, data |-> Ones(32), fault |-> TRUE]
        ELSE LET r == ReadDispatch(bits, st, address, junk)
             IN  [state |-> r.state, data |-> r.data, fault |-> FALSE]

\* the result: [state, fault]
m68k_write_memory(bits, st, sr, addr, value, junk) ==
    LET address == RomOverlay(st, addr)
        chk     == ACCESS_CHECK_WR(st, sr, address, bits)
    IN  IF chk.fault
        THEN [state |-> chk.state, fault |-> TRUE]
        ELSE [state |-> WriteDispatch(bits, st, address, value, junk),
              fault |-> FALSE]

m68k_read_memory_32(st, sr, addr, junk) == m68k_read_memory(32, st, sr, addr, junk)

m68k_read_memory_16(st, sr, addr, junk) == m68k_read_memory(16, st, sr, addr, junk)

m68k_read_memory_8(st, sr, addr, junk) == m68k_read_memory(8, st, sr, addr, junk)

m68k_write_memory_32(st, sr, addr, value, junk) ==
    m68k_write_memory(32, st, sr, addr, value, junk)

m68k_write_memory_16(st, sr, addr, value, junk) ==
    m68k_write_memory(16, st, sr, addr, value, junk)

m68k_write_memory_8(st, sr, addr, value, junk) ==
    m68k_write_memory(8, st, sr, addr, value, junk)

(***************************************************************************)
(* The machine after start-up, and the set-up sequences the runs start     *)
(* from.                                                                   *)
(***************************************************************************)
EmptyStore == [x \in {} |-> 0]

\* the machine state after state_init(base_ram_size, exp_ram_size)
state_init(base_size, exp_size) ==
    [map |-> EmptyStore, base_ram |-> EmptyStore, exp_ram |-> EmptyStore,
     vram |-> EmptyStore,
     base_ram_size |-> base_size, exp_ram_size |-> exp_size,
     genstat |-> 65535, bsr0 |-> 65535, bsr1 |-> 65535,
     pie |-> FALSE, romlmap |-> FALSE,
     dma_count |-> 0, dma_address |-> 0, idmarw |-> FALSE, dmaen |-> FALSE,
     dma_reading |-> FALSE, leds |-> 0,
     fdc_ctx |-> wd2797_init(ZeroCtx)]

\* the CPU's status register: user mode, supervisor mode
SR_USER == 0

SR_SUPER == 8192

SRs == {SR_USER, SR_SUPER}

Widths == {8, 16, 32}

\* register addresses
ADDR_ROMLMAP == 14954496

ADDR_PIE == 14946304

ADDR_MAPRAM == 4194304

\* a supervisor 16-bit write, as the boot code issues it
SuperWrite16(st, addr, value) ==
    m68k_write_memory_16(st, SR_SUPER, addr, value, 0).state

\* the supervisor writes map entry `page`
SetMapEntry(st, page, entry) == SuperWrite16(st, ADDR_MAPRAM + 2 * page, entry)

\* installed RAM: <<base_ram_size, exp_ram_size>>
RamConfigs == {<<2097152, 2097152>>, <<524288, 1048576>>}

\* the entries the runs give page 0x100: absent (0x0000); present, read-only,
\* base RAM (0x2001); accessed but not dirty, writable, base RAM (0xC002);
\* present, writable, last page of the expansion RAM window (0xA3FF)
Page100Entries == {0, 8193, 49154, 41983}

\* the set-up the boot code performs in supervisor mode: ROMLMAP on, then the
\* page table, then PIE.  Page 0 (kernel) present; page 1 absent; page 0x101
\* write-enabled but absent; page 0x102 dirty and read-only; pages 0x7F and
\* 0x80 (either side of the kernel boundary) present and writable
Setup(ram, e100, pie) ==
    LET s0 == state_init(ram[1], ram[2])
        s1 == SuperWrite16(s0, ADDR_ROMLMAP, 32768)
        s2 == SetMapEntry(s1, 0, 8192)
        s3 == SetMapEntry(s2, 256, e100)
        s4 == SetMapEntry(s3, 257, 33280)
        s5 == SetMapEntry(s4, 258, 24579)
        s6 == SetMapEntry(s5, 127, 40964)
        s7 == SetMapEntry(s6, 128, 40965)
    IN  IF pie THEN SuperWrite16(s7, ADDR_PIE, 32768) ELSE s7

NoXfer == [kind |-> "none", chs |-> <<0, 0, 0>>, written |-> <<>>,
           back |-> FALSE, expected |-> <<>>, got |-> <<>>]

\* the record of the last operation: the operation, its inputs, what it
\* returned and the machine state it started from
Op(name, bits, addr, value, sr, data, fault, pre) ==
    [op |-> name, bits |-> bits, addr |-> addr, value |-> value, sr |-> sr,
     data |-> data, fault |-> fault, pre |-> pre]

(***************************************************************************)
(* Bus cycles.                                                             *)
(***************************************************************************)
MaxBusOps == 2

\* the addresses the CPU issues: page 0, page 0x100 (even, odd), ROM, ROMLMAP
BusAddrs == {0, 1048576, 1048577, 8388608, ADDR_ROMLMAP}

\* the value a write of each width carries
WriteVals(bits) ==
    IF bits = 8 THEN {90}
    ELSE IF bits = 16 THEN {37428}
    ELSE {305436280}

BusInit ==
    /\ \/ \E ram \in RamConfigs : state = state_init(ram[1], ram[2])
       \/ \E ram \in RamConfigs, e \in Page100Entries, pie \in BOOLEAN :
             state = Setup(ram, e, pie)
    /\ last = Op("init", 0, 0, 0, 0, 0, FALSE, state)
    /\ xfer = NoXfer
    /\ ops = 0

\* the CPU issues word and long cycles at even addresses only
Aligned(bits, addr) == bits = 8 \/ addr % 2 = 0

BusRead ==
    \E bits \in Widths, addr \in BusAddrs, sr \in SRs,
       junk \in JunkChoices(state.fdc_ctx) :
        LET r == m68k_read_memory(bits, state, sr, addr, junk)
        IN  /\ ops < MaxBusOps
            /\ Aligned(bits, addr)
            /\ state' = r.state
            /\ last' = Op("read", bits, addr, 0, sr, r.data, r.fault, state)
            /\ ops' = ops + 1
            /\ UNCHANGED xfer

BusWrite ==
    \E bits \in Widths, addr \in BusAddrs, sr \in SRs,
       junk \in JunkChoices(state.fdc_ctx) :
        \E value \in WriteVals(bits) :
            LET r == m68k_write_memory(bits, state, sr, addr, value, junk)
            IN  /\ ops < MaxBusOps
                /\ Aligned(bits, addr)
                /\ state' = r.state
                /\ last' = Op("write", bits, addr, value, sr, 0, r.fault, state)
                /\ ops' = ops + 1
                /\ UNCHANGED xfer

BusNext == BusRead \/ BusWrite

BusSpec == BusInit /\ [][BusNext]_vars

(***************************************************************************)
(* Properties of the bus cycles (checked under BusSpec).                   *)
(***************************************************************************)
IsBusOp == last.op \in {"read", "write"}

\* the address of the last bus cycle after the ROM overlay
LastAddr == IF last.pre.romlmap THEN last.addr ELSE BitOr(last.addr, 8388608)

\* map entry `page` of machine state st, as a 16-bit big-endian word
Entry(st, page) == Get(st.map, 2 * page) * 256 + Get(st.map, 2 * page + 1)

\* the ordered rule of the access checker, in the words of the claim
AccessRule(st, sr, addr, writing) ==
    LET entry == Entry(st, (addr \div 4096) % 1024)
    IN  IF BitAnd(sr, 8192) # 0 THEN "MEM_ALLOWED"
        ELSE IF addr >= 4194304 THEN "MEM_UIE"
        ELSE IF BitAnd(entry, 24576) = 0 THEN "MEM_PAGEFAULT"
        ELSE IF addr < 524288 THEN "MEM_KERNEL"
        ELSE IF writing /\ BitAnd(entry, 32768) = 0 THEN "MEM_PAGE_NO_WE"
        ELSE "MEM_ALLOWED"

\* the verdict of the last bus cycle
LastVerdict ==
    checkMemoryAccess(last.pre, last.sr, LastAddr, last.op = "write")

\* addresses on both sides of every boundary of the rule
RuleAddrs ==
    {0, 4096, 520192, 524287, 524288, 1048576, 1048577, 1052672, 1056768,
     4194303, 4194304, 4194305, 8388608, 14954496, 16777215}

RuleSRs == {0, 1799, 8192, 9984}

\* C1: checkMemoryAccess returns, for every address, direction, supervisor bit
\* and map content, the verdict of the ordered rule (supervisor: ALLOWED;
\* addr >= 0x400000: UIE; page absent: PAGEFAULT; addr < 0x080000: KERNEL;
\* write to a page without write-enable: PAGE_NO_WE; else ALLOWED), and a bus
\* cycle raises a bus error exactly when that verdict is not ALLOWED.
C1_AccessRule ==
    /\ \A addr \in RuleAddrs, sr \in RuleSRs, writing \in BOOLEAN :
          checkMemoryAccess(state, sr, addr, writing)
              = AccessRule(state, sr, addr, writing)
    /\ IsBusOp =>
          last.fault = (AccessRule(last.pre, last.sr, LastAddr,
                                   last.op = "write") # "MEM_ALLOWED")

\* a user-mode write to a present page without write-enable was refused
C1_Witness ==
    /\ last.op = "write" /\ last.sr = SR_USER /\ last.fault
    /\ AccessRule(last.pre, last.sr, LastAddr, TRUE) = "MEM_PAGE_NO_WE"

\* the genstat value the claim gives for the last (faulting) bus cycle
FaultGenstat ==
    LET pie == IF last.pre.pie THEN 1024 ELSE 0
        v   == LastVerdict
    IN  IF v = "MEM_PAGEFAULT"
        THEN BitOr(IF last.op = "read" THEN 52223 ELSE 35839, pie)
        ELSE IF v = "MEM_UIE"
        THEN BitOr(IF last.op = "read" THEN 56063 ELSE 39679, pie)
        ELSE last.pre.genstat

FaultBsr0 ==
    BitOr(IF last.bits \in {16, 32} THEN 31744
          ELSE IF LastAddr % 2 = 1 THEN 32000 ELSE 32256,
          BitAnd(LastAddr \div 65536, 255))

\* C2: every bus cycle whose verdict is not ALLOWED pulses the bus error and
\* leaves genstat, bsr0 and bsr1 with the documented values (genstat
\* unchanged for KERNEL and PAGE_NO_WE); a faulting read returns 0xFFFFFFFF.
\* In particular read8(0x100000) in user mode with page 0x100 absent, romlmap
\* set and pie clear gives genstat 0xCBFF, bsr0 0x7E10, bsr1 0.
C2_FaultRegisters ==
    /\ (IsBusOp /\ LastVerdict # "MEM_ALLOWED") =>
          /\ last.fault
          /\ state.genstat = FaultGenstat
          /\ state.bsr0 = FaultBsr0
          /\ state.bsr1 = BitAnd(LastAddr, 65535)
          /\ last.op = "read" => last.data = Word32(65535, 65535)
    /\ ( /\ last.op = "read" /\ last.bits = 8 /\ last.addr = 1048576
         /\ last.sr = SR_USER /\ last.pre.romlmap /\ ~last.pre.pie
         /\ Entry(last.pre, 256) = 0 ) =>
          /\ last.fault
          /\ state.genstat = 52223
          /\ state.bsr0 = 32272
          /\ state.bsr1 = 0
          /\ last.data = Word32(65535, 65535)

\* the page-fault scenario of the specification has happened
C2_Witness ==
    /\ last.op = "read" /\ last.bits = 8 /\ last.addr = 1048576
    /\ last.sr = SR_USER /\ last.pre.romlmap /\ ~last.pre.pie
    /\ Entry(last.pre, 256) = 0
    /\ last.fault

\* the last bus cycle was a user-mode access below 0x400000 that was allowed
UserRamAccess ==
    /\ IsBusOp /\ last.sr = SR_USER /\ ~last.fault /\ LastAddr < 4194304

LastPage == (LastAddr \div 4096) % 1024

\* C3: after an allowed user-mode read of page P the high byte of map entry P
\* has bit 0x40 set, after an allowed user-mode write it has bits 0x60 set;
\* the physical page number and the write-enable bit of the entry are
\* unchanged.
C3_PageStatusBits ==
    UserRamAccess =>
        LET hi == Get(state.map, 2 * LastPage)
        IN  /\ last.op = "read" => BitAnd(hi, 64) = 64
            /\ last.op = "write" => BitAnd(hi, 96) = 96
            /\ Entry(state, LastPage) % 1024 = Entry(last.pre, LastPage) % 1024
            /\ BitAnd(Entry(state, LastPage), 32768)
                   = BitAnd(Entry(last.pre, LastPage), 32768)

\* an allowed user-mode write has made an accessed, clean page dirty
C3_Witness ==
    /\ UserRamAccess /\ last.op = "write"
    /\ BitAnd(Entry(last.pre, LastPage), 24576) = 16384
    /\ BitAnd(Entry(state, LastPage), 24576) = 24576

\* the physical address the map entry of the last cycle's page selects
LastPhys == (Entry(last.pre, LastPage) % 1024) * 4096 + (LastAddr % 4096)

\* the last cycle was a write and this step reads the same address back with
\* the same width, the ROM overlay being disabled, the address aligned and
\* below 0x400000, and the page allowing both directions
WriteThenRead ==
    /\ last.op = "write" /\ ~last.fault
    /\ last.pre.romlmap /\ last.addr < 4194304
    /\ Aligned(last.bits, last.addr)
    /\ last'.op = "read" /\ ~last'.fault
    /\ last'.bits = last.bits /\ last'.addr = last.addr
    /\ checkMemoryAccess(state, last'.sr, last.addr, TRUE) = "MEM_ALLOWED"
    /\ checkMemoryAccess(state, last.sr, last.addr, FALSE) = "MEM_ALLOWED"

\* the round trip of C4 as the specification states it: for every physical
\* page and every installed RAM size
C4_RoundTripAnyPage ==
    [][WriteThenRead => last'.data = last.value]_vars

\* C4: with the ROM overlay disabled, write_w(addr, v) immediately followed
\* by read_w(addr) returns v for w in {8, 16, 32}, addr aligned and below
\* 0x400000 with both directions allowed, provided the physical address the
\* map entry selects lies in installed RAM (below 0x200000, or less than
\* exp_ram_size above 0x200000).
C4_RoundTripInstalled ==
    [][(WriteThenRead /\ (LastPhys <= 2097151
                          \/ LastPhys - 2097152 < last.pre.exp_ram_size))
          => last'.data = last.value]_vars

\* a 32-bit value written by user code to a page mapped into expansion RAM
\* has been read back
C4_Witness ==
    /\ last.op = "read" /\ last.bits = 32 /\ last.sr = SR_USER /\ ~last.fault
    /\ last.addr = 1048576 /\ last.pre.romlmap
    /\ LastPhys >= 2097152
    /\ last.data = 305436280

\* the first four bytes of ROM as a big-endian long word
RomWord0 == Word32(rom[0] * 256 + rom[1], rom[2] * 256 + rom[3])

\* the long word at physical address p of base RAM
BaseLong(st, p) ==
    LET b(i) == Get(st.base_ram, (p + i) % st.base_ram_size)
    IN  Word32(b(0) * 256 + b(1), b(2) * 256 + b(3))

\* machine state st with the four RAM arrays emptied
BlankRam(st) ==
    [st EXCEPT !.base_ram = EmptyStore, !.exp_ram = EmptyStore,
               !.map = EmptyStore, !.vram = EmptyStore]

AboveInstalledRam ==
    /\ IsBusOp /\ ~last.fault /\ LastAddr < 4194304
    /\ LastPhys > 2097151
    /\ LastPhys - 2097152 >= last.pre.exp_ram_size

\* C26: for an allowed access below 0x400000 whose mapped physical address
\* lies above the installed RAM, a read of any width returns all-ones and a
\* write of any width is dropped: no byte of base RAM or expansion RAM
\* changes.
C26_AboveInstalledRam ==
    AboveInstalledRam =>
        /\ last.op = "read" => last.data = Ones(last.bits)
        /\ last.op = "write" =>
              /\ state.base_ram = last.pre.base_ram
              /\ state.exp_ram = last.pre.exp_ram

(***************************************************************************)
(* The floppy controller driven directly through its interface.            *)
(***************************************************************************)
\* a disc image of 24 bytes, all different and different from the bytes the
\* host writes
GoodImage == [i \in 1..24 |-> 16 + i]

\* a file too short for one track
ShortImage == <<1, 2, 3>>

\* a file one byte longer than two whole tracks of the 2 x 3 x 2 geometry
OddImage == [i \in 1..25 |-> 16 + i]

\* the geometries discs are loaded with: sector size, sectors per track, heads
G232 == [secsz |-> 2, spt |-> 3, heads |-> 2]

G321 == [secsz |-> 3, spt |-> 2, heads |-> 1]

\* the calls of wd2797_load the model makes
LoadConfigs ==
    {[fp |-> GoodImage, g |-> G232, writeable |-> TRUE, oom |-> FALSE],
     [fp |-> GoodImage, g |-> G321, writeable |-> FALSE, oom |-> FALSE],
     [fp |-> ShortImage, g |-> G232, writeable |-> TRUE, oom |-> FALSE],
     [fp |-> OddImage, g |-> G232, writeable |-> TRUE, oom |-> FALSE],
     [fp |-> GoodImage, g |-> G232, writeable |-> TRUE, oom |-> TRUE]}

Load(ctx, cfg) ==
    wd2797_load(ctx, cfg.fp, cfg.g.secsz, cfg.g.spt, cfg.g.heads,
                cfg.writeable, cfg.oom)

\* the machine after main() has initialised it, with 2 MiB + 2 MiB of RAM
Booted == state_init(2097152, 2097152)

WithCtx(st, ctx) == [st EXCEPT !.fdc_ctx = ctx]

\* the CHS a command byte val addresses in context c, and its validity
ChsOf(c, val) == <<c.track, HeadOf(val), c.sector>>

ValidChs(c, val) ==
    /\ c.disc_image # NULL
    /\ c.track >= 0 /\ c.track <= c.geom_tracks - 1
    /\ HeadOf(val) <= c.geom_heads - 1
    /\ c.sector >= 1 /\ c.sector <= c.geom_spt

\* the sector of the image a command byte val addresses in context c
SectorOf(c, val) ==
    LET off == (c.track * c.geom_heads * c.geom_spt
                + HeadOf(val) * c.geom_spt + c.sector - 1) * c.geom_secsz
    IN  [i \in 1..c.geom_secsz |-> c.disc_image[off + i]]

\* the transfer the host is in the middle of, after operation `name` with
\* register addr, written byte val and returned byte ret, started in context c
XferNext(name, addr, val, ret, c) ==
    LET cmd == BitAnd(val, CMD_MASK)
    IN  IF name = "write_reg" /\ addr = WD2797_REG_COMMAND
        THEN IF cmd = CMD_READ_SECTOR /\ ValidChs(c, val)
             THEN [kind |-> "rd", chs |-> ChsOf(c, val),
                   written |-> xfer.written,
                   back |-> /\ xfer.kind = "wr"
                            /\ Len(xfer.written) = c.geom_secsz
                            /\ xfer.chs = ChsOf(c, val),
                   expected |-> SectorOf(c, val), got |-> <<>>]
             ELSE IF cmd = CMD_WRITE_SECTOR /\ ValidChs(c, val) /\ c.writeable
             THEN [NoXfer EXCEPT !.kind = "wr", !.chs = ChsOf(c, val)]
             ELSE NoXfer
        ELSE IF /\ name = "write_reg" /\ addr = WD2797_REG_DATA
                /\ xfer.kind = "wr" /\ Len(xfer.written) < c.geom_secsz
        THEN [xfer EXCEPT !.written = Append(xfer.written, val)]
        ELSE IF /\ name = "read_reg" /\ addr = WD2797_REG_DATA
                /\ xfer.kind = "rd" /\ Len(xfer.got) < Len(xfer.expected)
        THEN [xfer EXCEPT !.got = Append(xfer.got, ret)]
        ELSE IF name = "read_reg" /\ addr = WD2797_REG_STATUS
        THEN xfer
        ELSE NoXfer

\* one call of the controller's interface: the context becomes ctx2
FdcStep(name, addr, val, ret, ctx2) ==
    /\ state' = WithCtx(state, ctx2)
    /\ last' = Op(name, 8, addr, val, 0, ret, FALSE, state)
    /\ xfer' = XferNext(name, addr, val, ret, state.fdc_ctx)
    /\ ops' = ops + 1

MaxFdcOps == 3

\* one value per command code, two with the head-select bit, and a FORCE
\* INTERRUPT with bit 3 (immediate interrupt) set
CmdVals == {16 * k : k \in 0..15} \cup {130, 162, 216}

RegVals(addr) ==
    IF addr = WD2797_REG_COMMAND THEN CmdVals
    ELSE IF addr = WD2797_REG_TRACK THEN {0, 1, 4}
    ELSE IF addr = WD2797_REG_SECTOR THEN {0, 1, 3, 4}
    ELSE {1, 90, 165}

FdcInit ==
    /\ \E ctx \in {wd2797_init(ZeroCtx)}
                  \cup {Load(wd2797_init(ZeroCtx), cfg).ctx : cfg \in LoadConfigs} :
          state = WithCtx(Booted, ctx)
    /\ last = Op("init", 0, 0, 0, 0, 0, FALSE, state)
    /\ xfer = NoXfer
    /\ ops = 0

FdcReadReg ==
    \E addr \in 0..3, junk \in JunkChoices(state.fdc_ctx) :
        LET r == wd2797_read_reg(state.fdc_ctx, addr, junk)
        IN  /\ ops < MaxFdcOps
            /\ FdcStep("read_reg", addr, 0, r.ret, r.ctx)

FdcWriteReg ==
    \E addr \in 0..3 : \E val \in RegVals(addr) :
        \E junk \in JunkChoices(state.fdc_ctx) :
            /\ ops < MaxFdcOps
            /\ FdcStep("write_reg", addr, val, 0,
                       wd2797_write_reg(state.fdc_ctx, addr, val, junk))

FdcReset ==
    /\ ops < MaxFdcOps
    /\ FdcStep("reset", 0, 0, 0, wd2797_reset(state.fdc_ctx))

FdcDmaMiss ==
    /\ ops < MaxFdcOps
    /\ FdcStep("dma_miss", 0, 0, 0, wd2797_dma_miss(state.fdc_ctx))

FdcLoad ==
    \E cfg \in LoadConfigs :
        /\ ops < MaxFdcOps
        /\ FdcStep("load", cfg.g.secsz * cfg.g.spt * cfg.g.heads,
                   Len(cfg.fp), Load(state.fdc_ctx, cfg).err,
                   Load(state.fdc_ctx, cfg).ctx)

FdcUnload ==
    /\ ops < MaxFdcOps
    /\ FdcStep("unload", 0, 0, 0, wd2797_unload(state.fdc_ctx))

FdcNext ==
    \/ FdcReadReg
    \/ FdcWriteReg
    \/ FdcReset
    \/ FdcDmaMiss
    \/ FdcLoad
    \/ FdcUnload

FdcSpec == FdcInit /\ [][FdcNext]_vars

(***************************************************************************)
(* Sector transfers: a host that issues READ SECTOR, WRITE SECTOR and      *)
(* FORMAT TRACK commands and services the DATA and STATUS registers, on a  *)
(* loaded disc whose TRACK and SECTOR registers have been set.             *)
(***************************************************************************)
MaxXferOps == 7

\* READ SECTOR, WRITE SECTOR (head 0 and head 1) and FORMAT TRACK
XferCmds == {CMD_READ_SECTOR, CMD_READ_SECTOR + 2,
             CMD_WRITE_SECTOR, CMD_WRITE_SECTOR + 2, CMD_FORMAT_TRACK}

XferData == {90, 165}

\* the controller after a disc was loaded, optionally a transfer was lost to
\* a DMA miss, and the host has set the TRACK and SECTOR registers
Prepared(writeable, missed, track, sector) ==
    LET c0 == wd2797_load(wd2797_init(ZeroCtx), GoodImage, G232.secsz,
                          G232.spt, G232.heads, writeable, FALSE).ctx
        c1 == IF missed
              THEN wd2797_dma_miss(wd2797_write_reg(c0, WD2797_REG_COMMAND,
                                                    CMD_READ_ADDRESS, 0))
              ELSE c0
        c2 == wd2797_write_reg(c1, WD2797_REG_TRACK, track, 0)
    IN  wd2797_write_reg(c2, WD2797_REG_SECTOR, sector, 0)

XferInit ==
    /\ \E writeable \in BOOLEAN, missed \in BOOLEAN,
          ts \in {<<0, 1>>, <<1, 3>>} :
          state = WithCtx(Booted, Prepared(writeable, missed, ts[1], ts[2]))
    /\ last = Op("init", 0, 0, 0, 0, 0, FALSE, state)
    /\ xfer = NoXfer
    /\ ops = 0

XferCommand ==
    \E val \in XferCmds, junk \in JunkChoices(state.fdc_ctx) :
        /\ ops < MaxXferOps
        /\ FdcStep("write_reg", WD2797_REG_COMMAND, val, 0,
                   wd2797_write_reg(state.fdc_ctx, WD2797_REG_COMMAND, val, junk))

XferDataRead ==
    \E junk \in JunkChoices(state.fdc_ctx) :
        LET r == wd2797_read_reg(state.fdc_ctx, WD2797_REG_DATA, junk)
        IN  /\ ops < MaxXferOps
            /\ FdcStep("read_reg", WD2797_REG_DATA, 0, r.ret, r.ctx)

XferDataWrite ==
    \E val \in XferData, junk \in JunkChoices(state.fdc_ctx) :
        /\ ops < MaxXferOps
        /\ FdcStep("write_reg", WD2797_REG_DATA, val, 0,
                   wd2797_write_reg(state.fdc_ctx, WD2797_REG_DATA, val, junk))

XferStatusRead ==
    LET r == wd2797_read_reg(state.fdc_ctx, WD2797_REG_STATUS, 0)
    IN  /\ ops < MaxXferOps
        /\ FdcStep("read_reg", WD2797_REG_STATUS, 0, r.ret, r.ctx)

XferNextStep ==
    \/ XferCommand
    \/ XferDataRead
    \/ XferDataWrite
    \/ XferStatusRead

XferSpec == XferInit /\ [][XferNextStep]_vars

(***************************************************************************)
(* A host that starts a transfer command when none is pending and then     *)
(* services the DATA register in the command's direction while DRQ is      *)
(* asserted.  `ops` counts the commands; xfer.kind is the direction.       *)
(***************************************************************************)
MaxServeCmds == 1

\* the data-transfer commands: reads, writes (head 0 and head 1) and format
ServeCmds == {CMD_READ_SECTOR, CMD_READ_SECTOR_MULTI, CMD_READ_ADDRESS,
              CMD_WRITE_SECTOR, CMD_WRITE_SECTOR + 2, CMD_WRITE_SECTOR_MULTI,
              CMD_FORMAT_TRACK}

\* the direction the host services a command in
DirOf(val) ==
    IF BitAnd(val, CMD_MASK) \in {CMD_READ_SECTOR, CMD_READ_SECTOR_MULTI,
                                  CMD_READ_ADDRESS}
    THEN "rd" ELSE "wr"

\* the values the host has written to the TRACK and SECTOR registers: the
\* first and the last sector of the disc, sector 0, and a track past the end
ServeChs == {<<0, 1>>, <<1, 3>>, <<0, 0>>, <<4, 1>>}

ServeInit ==
    /\ \E ts \in ServeChs :
          state = WithCtx(Booted, Prepared(TRUE, FALSE, ts[1], ts[2]))
    /\ last = Op("init", 0, 0, 0, 0, 0, FALSE, state)
    /\ xfer = NoXfer
    /\ ops = 0

ServeCommand ==
    \E val \in ServeCmds :
        /\ ops < MaxServeCmds
        /\ ~wd2797_get_drq(state.fdc_ctx)
        /\ state' = WithCtx(state, wd2797_write_reg(state.fdc_ctx,
                                                    WD2797_REG_COMMAND, val, 0))
        /\ last' = Op("write_reg", 8, WD2797_REG_COMMAND, val, 0, 0, FALSE,
                      state)
        /\ xfer' = [NoXfer EXCEPT !.kind = DirOf(val)]
        /\ ops' = ops + 1

ServeDataRead ==
    \E junk \in JunkChoices(state.fdc_ctx) :
        LET r == wd2797_read_reg(state.fdc_ctx, WD2797_REG_DATA, junk)
        IN  /\ wd2797_get_drq(state.fdc_ctx) /\ xfer.kind = "rd"
            /\ state' = WithCtx(state, r.ctx)
            /\ last' = Op("read_reg", 8, WD2797_REG_DATA, 0, 0, r.ret, FALSE,
                          state)
            /\ UNCHANGED <<xfer, ops>>

\* the byte the host writes to the DATA register: never the one it wrote last
ServeByte(ctx) == IF ctx.data_reg = 90 THEN 165 ELSE 90

ServeDataWrite ==
    \E val \in {ServeByte(state.fdc_ctx)}, junk \in JunkChoices(state.fdc_ctx) :
        /\ wd2797_get_drq(state.fdc_ctx) /\ xfer.kind = "wr"
        /\ state' = WithCtx(state, wd2797_write_reg(state.fdc_ctx,
                                                    WD2797_REG_DATA, val, junk))
        /\ last' = Op("write_reg", 8, WD2797_REG_DATA, val, 0, 0, FALSE, state)
        /\ UNCHANGED <<xfer, ops>>

ServeNext ==
    \/ ServeCommand
    \/ ServeDataRead
    \/ ServeDataWrite

ServeSpec == ServeInit /\ [][ServeNext]_vars

\* the host never stops servicing the DATA register while DRQ is asserted
ServeLive ==
    /\ ServeSpec
    /\ WF_vars(ServeDataRead)
    /\ WF_vars(ServeDataWrite)

(***************************************************************************)
(* Bus cycles to the I/O registers of zone A and to page 0.                *)
(***************************************************************************)
MaxRegOps == 2

\* register addresses of zone A
ADDR_DMACOUNT == 4587520

ADDR_CLRSTAT == 4980736

ADDR_DISKCON == 5111808

\* the addresses the CPU issues: page 0 and the three registers
RegAddrs == {0, ADDR_DMACOUNT, ADDR_CLRSTAT, ADDR_DISKCON}

\* the values a write of each width carries.  16 bits: bits 15, 14 and 7
\* clear (0x1234); a count that wraps, bit 7 set (0x3FFF); bit 14 set
\* (0x4001); all ones
RegWriteVals(bits) ==
    IF bits = 8 THEN {90}
    ELSE IF bits = 16 THEN {4660, 16383, 16385, 65535}
    ELSE {305436280}

\* the entries the runs give page 0x60, the page number in the address of
\* DMACOUNT: absent, frame 0 (0x0000); dirty, writable, frame 5 (0xE005)
Page60Entries == {0, 57349}

\* a disc loaded and idle; a READ SECTOR of track 1, sector 3 in progress;
\* a FORMAT TRACK in progress after a SEEK to track 1
FdcContexts ==
    LET idle == Load(wd2797_init(ZeroCtx),
                     [fp |-> GoodImage, g |-> G232, writeable |-> TRUE,
                      oom |-> FALSE]).ctx
        t1   == wd2797_write_reg(idle, WD2797_REG_TRACK, 1, 0)
        s3   == wd2797_write_reg(t1, WD2797_REG_SECTOR, 3, 0)
        d1   == wd2797_write_reg(idle, WD2797_REG_DATA, 1, 0)
        sk   == wd2797_write_reg(d1, WD2797_REG_COMMAND, CMD_SEEK, 0)
    IN  <<idle,
          wd2797_write_reg(s3, WD2797_REG_COMMAND, CMD_READ_SECTOR, 0),
          wd2797_write_reg(sk, WD2797_REG_COMMAND, CMD_FORMAT_TRACK, 0)>>

\* the set-up the boot code performs in supervisor mode: ROMLMAP on, page 0
\* present and not referenced, page 0x60 as given; the controller in ctx
RegSetup(ram, e60, ctx) ==
    LET s0 == state_init(ram[1], ram[2])
        s1 == SuperWrite16(s0, ADDR_ROMLMAP, 32768)
        s2 == SetMapEntry(s1, 0, 8192)
        s3 == SetMapEntry(s2, 96, e60)
    IN  WithCtx(s3, ctx)

RegInit ==
    /\ \/ state = WithCtx(Booted, FdcContexts[1])
       \/ \E ram \in RamConfigs, e \in Page60Entries :
             state = RegSetup(ram, e, FdcContexts[2])
       \/ \E i \in {1, 3} : state = RegSetup(<<2097152, 2097152>>, 0,
                                             FdcContexts[i])
    /\ last = Op("init", 0, 0, 0, 0, 0, FALSE, state)
    /\ xfer = NoXfer
    /\ ops = 0

RegRead ==
    \E addr \in RegAddrs, sr \in SRs :
        LET r == m68k_read_memory_16(state, sr, addr, 0)
        IN  /\ ops < MaxRegOps
            /\ state' = r.state
            /\ last' = Op("read", 16, addr, 0, sr, r.data, r.fault, state)
            /\ ops' = ops + 1
            /\ UNCHANGED xfer

RegWrite ==
    \E bits \in Widths, addr \in RegAddrs, sr \in SRs :
        \E value \in RegWriteVals(bits) :
            LET r == m68k_write_memory(bits, state, sr, addr, value, 0)
            IN  /\ ops < MaxRegOps
                /\ state' = r.state
                /\ last' = Op("write", bits, addr, value, sr, 0, r.fault, state)
                /\ ops' = ops + 1
                /\ UNCHANGED xfer

RegNext == RegRead \/ RegWrite

RegSpec == RegInit /\ [][RegNext]_vars

\* the page status of a map entry: bits 13-14
PageStatus(st, page) == (Entry(st, page) \div 8192) % 4

\* C33: a read bus cycle never marks a page dirty: every page whose status
\* bits (map entry bits 13-14) are not 11 before a read through the Address
\* Mapper does not have status 11 after it, and a present page (01) that is
\* read ends with status 10 (referenced).
C33_ReadNeverDirties ==
    last.op = "read" =>
        /\ \A page \in 0..1023 :
              PageStatus(last.pre, page) # 3 => PageStatus(state, page) # 3
        /\ (/\ ~last.fault
            /\ last.addr < 4194304
            /\ last.pre.romlmap
            /\ PageStatus(last.pre, PageOf(last.addr)) = 1)
           => PageStatus(state, PageOf(last.addr)) = 2

(***************************************************************************)
(* Bus cycles to the general status and DMA address registers.             *)
(***************************************************************************)
MaxCtlOps == 2

\* the general status register, and its odd byte
ADDR_GENSTAT == 4259840

\* the DMA address register: bit 14 set with address bits 0x2AAA; bit 14
\* clear with address bits 0x3E54 and 0x01FE
ADDR_DMAADDR == 5046272

DmaAddrs == {ADDR_DMAADDR + 27306, ADDR_DMAADDR + 15956, ADDR_DMAADDR + 510}

CtlAddrs == {ADDR_GENSTAT, ADDR_GENSTAT + 1} \cup DmaAddrs

\* the value a write of each width carries
CtlWriteVals(bits) ==
    IF bits = 8 THEN {90}
    ELSE IF bits = 16 THEN {4660, 65535}
    ELSE {305436280}

CtlInit ==
    /\ \/ state = Booted
       \/ state = RegSetup(<<2097152, 2097152>>, 0, FdcContexts[1])
    /\ last = Op("init", 0, 0, 0, 0, 0, FALSE, state)
    /\ xfer = NoXfer
    /\ ops = 0

CtlRead ==
    \E sr \in SRs :
        LET r == m68k_read_memory_16(state, sr, ADDR_GENSTAT, 0)
        IN  /\ ops < MaxCtlOps
            /\ state' = r.state
            /\ last' = Op("read", 16, ADDR_GENSTAT, 0, sr, r.data, r.fault,
                          state)
            /\ ops' = ops + 1
            /\ UNCHANGED xfer

CtlWrite ==
    \E bits \in Widths, addr \in CtlAddrs, sr \in SRs :
        \E value \in CtlWriteVals(bits) :
            LET r == m68k_write_memory(bits, state, sr, addr, value, 0)
            IN  /\ ops < MaxCtlOps
                /\ Aligned(bits, addr)
                /\ state' = r.state
                /\ last' = Op("write", bits, addr, value, sr, 0, r.fault, state)
                /\ ops' = ops + 1
                /\ UNCHANGED xfer

CtlNext == CtlRead \/ CtlWrite

CtlSpec == CtlInit /\ [][CtlNext]_vars

(***************************************************************************)
(* Properties of the floppy controller.                                    *)
(***************************************************************************)
\* the controller's context now, and before the last operation
Ctx == state.fdc_ctx

PreCtx == last.pre.fdc_ctx

\* what a STATUS read would return now
StatusNow == wd2797_read_reg(Ctx, WD2797_REG_STATUS, 0).ret

LastIs(name, addr) == last.op = name /\ last.addr % 4 = addr

Prefix(a, b) == Len(a) <= Len(b) /\ \A i \in 1..Len(a) : a[i] = b[i]

\* C6: after any sequence of FDC operations, irq is false immediately after
\* read_reg(STATUS) returns.
C6_StatusClearsIrq ==
    LastIs("read_reg", WD2797_REG_STATUS) => ~wd2797_get_irq(Ctx)

\* a STATUS read has cleared a pending interrupt
C6_Witness ==
    /\ LastIs("read_reg", WD2797_REG_STATUS)
    /\ wd2797_get_irq(PreCtx)
    /\ ~wd2797_get_irq(Ctx)

\* the last operation was a READ SECTOR command with valid CHS on a loaded
\* image
ReadSectorIssued ==
    /\ LastIs("write_reg", WD2797_REG_COMMAND)
    /\ BitAnd(last.value, CMD_MASK) = CMD_READ_SECTOR
    /\ ValidChs(PreCtx, last.value)

\* C7: after a READ SECTOR command with valid CHS on a loaded image IRQ is
\* not asserted and a STATUS read has bits 0x01 and 0x02 set; successive DATA
\* reads return, in order, the sector_size bytes of the image at offset
\* (track*heads*spt + head*spt + sector - 1) * sector_size; the read of the
\* last byte (and no earlier one) asserts IRQ, and afterwards DRQ is false
\* and a STATUS read has bit 0x01 clear.
C7_ReadSector ==
    /\ ReadSectorIssued =>
          /\ xfer.kind = "rd" /\ xfer.got = <<>>
          /\ Len(xfer.expected) = PreCtx.geom_secsz
          /\ ~wd2797_get_irq(Ctx)
          /\ BitAnd(StatusNow, 3) = 3
    /\ xfer.kind = "rd" =>
          /\ Prefix(xfer.got, xfer.expected)
          /\ Len(xfer.got) < Len(xfer.expected) =>
                /\ wd2797_get_drq(Ctx)
                /\ ~wd2797_get_irq(Ctx)
                /\ BitAnd(StatusNow, 3) = 3
          /\ Len(xfer.got) = Len(xfer.expected) =>
                /\ ~wd2797_get_drq(Ctx)
                /\ BitAnd(StatusNow, 1) = 0
                /\ LastIs("read_reg", WD2797_REG_DATA) => wd2797_get_irq(Ctx)

\* the last sector of the disc (track 1, head 1, sector 3) has been read
\* completely, the final DATA read raising the interrupt
C7_Witness ==
    /\ xfer.kind = "rd" /\ xfer.chs = <<1, 1, 3>>
    /\ xfer.got = <<GoodImage[23], GoodImage[24]>>
    /\ LastIs("read_reg", WD2797_REG_DATA)
    /\ wd2797_get_irq(Ctx) /\ ~wd2797_get_irq(PreCtx)

\* C8: on a writeable image, after any prior history, WRITE SECTOR for a
\* valid CHS, sector_size DATA writes, READ SECTOR for the same CHS and
\* sector_size DATA reads return the written bytes in order.
C8_WriteReadBack ==
    (xfer.kind = "rd" /\ xfer.back) => Prefix(xfer.got, xfer.written)

\* C9: in every reachable FDC state 0 <= data_pos <= data_len <=
\* capacity(data), the capacity being the size of the allocated buffer.
C9_BufferBounds ==
    /\ 0 <= Ctx.data_pos
    /\ Ctx.data_pos <= Ctx.data_len
    /\ Ctx.data_len <= Len(Ctx.data)

\* the last operation was a Type-1 command (RESTORE, SEEK, STEP, STEP IN,
\* STEP OUT) that the controller executed: a disc was loaded
Type1Executed ==
    /\ LastIs("write_reg", WD2797_REG_COMMAND)
    /\ BitAnd(last.value, CMD_MASK) < CMD_READ_SECTOR
    /\ PreCtx.disc_image # NULL

\* C10: in every reachable FDC state wd2797_get_drq equals
\* (data_pos < data_len), and DRQ asserted implies cmd_has_drq; after a
\* Type-1 command has executed, cmd_has_drq is false and DRQ is deasserted.
C10_DrqFlag ==
    /\ wd2797_get_drq(Ctx) = (Ctx.data_pos < Ctx.data_len)
    /\ wd2797_get_drq(Ctx) => Ctx.cmd_has_drq
    /\ Type1Executed => (~Ctx.cmd_has_drq /\ ~wd2797_get_drq(Ctx))

\* a Type-1 command has terminated a transfer that had DRQ asserted
C10_Witness ==
    /\ Type1Executed
    /\ wd2797_get_drq(PreCtx) /\ PreCtx.cmd_has_drq
    /\ ~wd2797_get_drq(Ctx) /\ ~Ctx.cmd_has_drq

(***************************************************************************)
(* Properties of single controller commands.                               *)
(***************************************************************************)
\* the last operation wrote command code cmd to the command register while
\* a disc was loaded
CommandIssued(cmd) ==
    /\ LastIs("write_reg", WD2797_REG_COMMAND)
    /\ BitAnd(last.value, CMD_MASK) = cmd
    /\ PreCtx.disc_image # NULL

\* C11: a SEEK command whose data_reg is not below the image's track count
\* leaves track and track_reg unchanged, and after the command the status
\* register has bit 0x10 (seek error) set and IRQ is asserted.
C11_SeekError ==
    (CommandIssued(CMD_SEEK) /\ PreCtx.data_reg >= PreCtx.geom_tracks) =>
        /\ Ctx.track = PreCtx.track
        /\ Ctx.track_reg = PreCtx.track_reg
        /\ BitAnd(Ctx.status, 16) = 16
        /\ wd2797_get_irq(Ctx)

\* C12: a SEEK command with data_reg < tracks sets track = track_reg =
\* data_reg and performs no step: track is data_reg exactly and
\* last_step_dir is unchanged.
C12_SeekNoStep ==
    (CommandIssued(CMD_SEEK) /\ PreCtx.data_reg < PreCtx.geom_tracks) =>
        /\ Ctx.track = PreCtx.data_reg
        /\ Ctx.track_reg = PreCtx.data_reg
        /\ Ctx.last_step_dir = PreCtx.last_step_dir

\* after a STEP IN to track 1, a SEEK to track 0 has moved the head to
\* track 0 and kept the step direction
C12_Witness ==
    /\ CommandIssued(CMD_SEEK)
    /\ PreCtx.track = 1 /\ PreCtx.last_step_dir = 1 /\ PreCtx.data_reg = 0
    /\ Ctx.track = 0 /\ Ctx.track_reg = 0 /\ Ctx.last_step_dir = 1

\* C13: a RESTORE command on a loaded image sets track = track_reg = 0,
\* leaves the status register with bits 0x20 and 0x04 set, empties the data
\* buffer (data_pos = data_len = 0) and asserts IRQ, from any prior state.
C13_Restore ==
    CommandIssued(CMD_RESTORE) =>
        /\ Ctx.track = 0 /\ Ctx.track_reg = 0
        /\ BitAnd(Ctx.status, 36) = 36
        /\ BitAnd(StatusNow, 36) = 36
        /\ Ctx.data_pos = 0 /\ Ctx.data_len = 0
        /\ wd2797_get_irq(Ctx)

\* a RESTORE has brought the head back from another track and ended a
\* pending transfer
C13_Witness ==
    /\ CommandIssued(CMD_RESTORE)
    /\ PreCtx.track # 0 /\ PreCtx.data_pos < PreCtx.data_len
    /\ Ctx.track = 0 /\ Ctx.data_len = 0 /\ wd2797_get_irq(Ctx)

\* C19: every Type-1 command (RESTORE, SEEK, STEP, STEP IN, STEP OUT) and
\* every FORCE INTERRUPT command written to the command register ends any
\* data transfer, from any reachable state of the controller: after the
\* write data_pos = data_len = 0 and DRQ is false.
C19_CommandCancelsTransfer ==
    ( /\ last.op = "write_reg" /\ last.addr = WD2797_REG_COMMAND
      /\ \/ BitAnd(last.value, CMD_MASK) < 128
         \/ BitAnd(last.value, CMD_MASK) = CMD_FORCE_INTERRUPT ) =>
        /\ Ctx.data_pos = 0 /\ Ctx.data_len = 0
        /\ ~wd2797_get_drq(Ctx)

\* C20: wd2797_load attaches the image only when the track size
\* secsz * spt * heads (last.addr) divides the file size (last.value) exactly
\* into at least one track; otherwise it returns the bad-geometry error and
\* leaves the controller's state as it was.
C20_LoadExactGeometry ==
    last.op = "load" =>
        LET exact == last.value % last.addr = 0 /\ last.value >= last.addr
        IN  /\ last.data = "WD2797_ERR_OK" => exact
            /\ ~exact => /\ last.data = "WD2797_ERR_BAD_GEOM"
                         /\ Ctx = PreCtx

(***************************************************************************)
(* Properties of the zone A registers and of page 0 (checked under         *)
(* RegSpec).                                                               *)
(***************************************************************************)
\* the last bus cycle was a write to addr with the ROM overlay switched off
RegWritten(addr) ==
    last.op = "write" /\ last.addr = addr /\ last.pre.romlmap

\* the high byte of map entry `page` in machine state st
EntryHigh(st, page) == Get(st.map, 2 * page)

\* the last bus cycle was write16(0x000000, 0x1234) in mode sr, issued while
\* the entry of page 0 was 0x2000 (present, not referenced)
Write1234(sr) ==
    /\ RegWritten(0) /\ last.bits = 16 /\ last.value = 4660 /\ last.sr = sr
    /\ Entry(last.pre, 0) = 8192

\* the word is in RAM, the entry's high byte is (prior | 0x60), and a
\* read16(0x000000) in mode sr returns 0x1234
Promoted(sr) ==
    /\ RD16(state.base_ram, 0, state.base_ram_size - 1) = 4660
    /\ EntryHigh(state, 0) = BitOr(EntryHigh(last.pre, 0), 96)
    /\ m68k_read_memory_16(state, sr, 0, 0).data = 4660

\* C14 as stated: in user mode with the entry of page 0 = 0x2000,
\* write16(0x000000, 0x1234) stores the word and promotes the entry so that
\* its high byte becomes (prior | 0x60), and a following read16(0x000000)
\* returns 0x1234.
C14_DirtyPromotionUser == Write1234(SR_USER) => Promoted(SR_USER)

\* C14: in supervisor mode with the entry of page 0 = 0x2000,
\* write16(0x000000, 0x1234) stores the word, the entry's high byte becomes
\* (prior | 0x60) and a following read16(0x000000) returns 0x1234; in user
\* mode the same write is refused with a bus error (page 0 lies below
\* 0x080000), stores nothing and leaves the entry as it was.
C14_DirtyPromotion ==
    /\ Write1234(SR_SUPER) => ~last.fault /\ Promoted(SR_SUPER)
    /\ Write1234(SR_USER) =>
          /\ last.fault
          /\ checkMemoryAccess(last.pre, SR_USER, 0, TRUE) = "MEM_KERNEL"
          /\ state.base_ram = last.pre.base_ram
          /\ state.map = last.pre.map

\* a supervisor write16(0x000000, 0x1234) has turned the entry 0x2000 into
\* 0x6000 and the word reads back
C14_Witness ==
    /\ Write1234(SR_SUPER)
    /\ Entry(state, 0) = 24576
    /\ m68k_read_memory_16(state, SR_SUPER, 0, 0).data = 4660

\* C15 as stated: after every write bus cycle (any width, any data value) to
\* the CLRSTAT register, genstat = bsr0 = bsr1 = 0xFFFF.
C15_ClrstatEveryCycle ==
    RegWritten(ADDR_CLRSTAT) =>
        state.genstat = 65535 /\ state.bsr0 = 65535 /\ state.bsr1 = 65535

\* C15: after every write bus cycle (any width, any data value) to CLRSTAT
\* that the access check lets through (supervisor mode), genstat = bsr0 =
\* bsr1 = 0xFFFF; a user-mode write cycle to CLRSTAT is refused with a bus
\* error and leaves the fault in the three registers instead (genstat
\* 0x9AFF, or 0x9EFF with PIE).
C15_ClrstatWrite ==
    /\ (RegWritten(ADDR_CLRSTAT) /\ ~last.fault) =>
          state.genstat = 65535 /\ state.bsr0 = 65535 /\ state.bsr1 = 65535
    /\ RegWritten(ADDR_CLRSTAT) => (last.fault <=> last.sr = SR_USER)
    /\ (RegWritten(ADDR_CLRSTAT) /\ last.fault) =>
          /\ state.genstat \in {39679, 40703}
          /\ state.bsr0 # 65535

\* a supervisor write to CLRSTAT has cleared the registers of an earlier
\* bus error
C15_Witness ==
    /\ RegWritten(ADDR_CLRSTAT) /\ ~last.fault
    /\ last.pre.genstat # 65535 /\ last.pre.bsr0 # 65535
    /\ last.pre.bsr1 # 65535
    /\ state.genstat = 65535 /\ state.bsr0 = 65535 /\ state.bsr1 = 65535

\* the last bus cycle was a write to DMACOUNT that reached the register
DmaCountWritten == RegWritten(ADDR_DMACOUNT) /\ ~last.fault

\* what a read16 of DMACOUNT returns now
DmaCountNow == m68k_read_memory_16(state, SR_SUPER, ADDR_DMACOUNT, 0).data

\* C16: for every 16-bit value v, writing v to DMACOUNT and then reading
\* DMACOUNT yields (((v & 0x3FFF) + 1) & 0x3FFF) | 0xC000; the write also
\* sets idmarw from bit 14 and dmaen from bit 15 of v.
C16_DmaCount ==
    (DmaCountWritten /\ last.bits = 16) =>
        /\ DmaCountNow = BitOr(((last.value % 16384) + 1) % 16384, 49152)
        /\ state.idmarw = (BitAnd(last.value, 16384) = 16384)
        /\ state.dmaen = (BitAnd(last.value, 32768) = 32768)

\* 0x3FFF was written: the count has wrapped and DMACOUNT reads 0xC000
C16_Witness ==
    /\ DmaCountWritten /\ last.bits = 16 /\ last.value = 16383
    /\ DmaCountNow = 49152
    /\ ~state.idmarw /\ ~state.dmaen

\* the physical address the page table gives bus address addr in state st
Translated(st, addr) == Shl(Entry(st, PageOf(addr)) % 1024, 12) + (addr % 4096)

\* the 16-bit word 0xDEAD is in base RAM at addr, as a word of its own or as
\* the low half of a long word stored there
DeadAt(st, addr) ==
    \/ RD16(st.base_ram, addr, st.base_ram_size - 1) = 57005
    \/ RD32(st.base_ram, addr, st.base_ram_size - 1) = 57005

\* C17: a write to DMACOUNT with bit 14 clear performs the dummy DMA
\* transfer: the word 0xDEAD appears in RAM at the bus address of the cycle
\* translated through the page table; a write with bit 14 set changes no RAM.
C17_DummyDma ==
    (DmaCountWritten /\ last.bits = 16) =>
        IF BitAnd(last.value, 16384) = 0
        THEN DeadAt(state, Translated(last.pre, last.addr))
        ELSE /\ state.base_ram = last.pre.base_ram
             /\ state.exp_ram = last.pre.exp_ram

\* the last bus cycle was a write to DISKCON that reached the register
DiskConWritten == RegWritten(ADDR_DISKCON) /\ ~last.fault

\* C18: after a write to DISKCON with data bit 7 clear the controller is in
\* its reset state: track, track_reg, sector and data_reg are 0, IRQ and DRQ
\* are false and the next STATUS read returns 0, whatever command or
\* transfer was in progress; a DISKCON write with bit 7 set leaves the
\* controller unchanged.
C18_DiskConReset ==
    DiskConWritten =>
        IF BitAnd(last.value, 128) = 0
        THEN /\ Ctx.track = 0 /\ Ctx.track_reg = 0
             /\ Ctx.sector = 0 /\ Ctx.data_reg = 0
             /\ ~wd2797_get_irq(Ctx) /\ ~wd2797_get_drq(Ctx)
             /\ StatusNow = 0
        ELSE Ctx = PreCtx

\* a DISKCON write with bit 7 clear has ended a sector read on track 1
C18_Witness ==
    /\ DiskConWritten /\ BitAnd(last.value, 128) = 0
    /\ PreCtx.track = 1 /\ PreCtx.sector = 3
    /\ wd2797_get_drq(PreCtx) /\ BitAnd(StatusByte(PreCtx), 3) = 3
    /\ Ctx.track = 0 /\ ~wd2797_get_drq(Ctx) /\ StatusNow = 0

\* the last operation wrote the command register
CommandWritten == LastIs("write_reg", WD2797_REG_COMMAND)

\* C21: every write to the command register first clears IRQ (the IRQ line
\* after the write does not depend on its level before, and a READ ADDRESS
\* on a loaded image leaves it clear); with no image loaded the command,
\* whatever its code, sets status = 0x80, asserts IRQ and changes nothing
\* else: not track, track_reg, sector, last_step_dir or the data buffer.
C21_NotReady ==
    CommandWritten =>
        /\ wd2797_write_reg([PreCtx EXCEPT !.irq = ~PreCtx.irq],
                            WD2797_REG_COMMAND, last.value, 0) = Ctx
        /\ ( /\ PreCtx.disc_image # NULL
              /\ BitAnd(last.value, CMD_MASK) = CMD_READ_ADDRESS ) =>
              ~wd2797_get_irq(Ctx)
        /\ PreCtx.disc_image = NULL =>
              /\ Ctx.status = 128 /\ wd2797_get_irq(Ctx)
              /\ Ctx = [PreCtx EXCEPT !.status = 128, !.irq = TRUE]

\* a command written after the disc was unloaded with the head on track 1:
\* not ready, the head still on track 1
C21_Witness ==
    /\ CommandWritten /\ PreCtx.disc_image = NULL
    /\ PreCtx.track = 1 /\ PreCtx.status # 128
    /\ Ctx.status = 128 /\ wd2797_get_irq(Ctx) /\ Ctx.track = 1

\* the command code of the last command write
LastCmd == BitAnd(last.value, CMD_MASK)

\* the direction a step command of code cmd uses in context c
StepDir(c, cmd) ==
    IF cmd \in {CMD_STEPIN, CMD_STEPIN_TU} THEN 1
    ELSE IF cmd \in {CMD_STEPOUT, CMD_STEPOUT_TU} THEN -1
    ELSE c.last_step_dir

Clamp(x, lo, hi) == IF x < lo THEN lo ELSE IF x > hi THEN hi ELSE x

\* C22: every STEP, STEP IN and STEP OUT command (codes 0x2 to 0x7) on a
\* loaded image moves the head one track in its direction (STEP: the last
\* direction; STEP IN: +1; STEP OUT: -1, both stored in last_step_dir), the
\* new track is clamp(track + dir, 0, tracks - 1), a move clamped at the
\* upper bound leaves the seek-error bit 0x10 in the status register, and
\* track_reg becomes the new track exactly when bit 4 of the command is set.
C22_Step ==
    ( /\ CommandWritten /\ PreCtx.disc_image # NULL
      /\ LastCmd >= CMD_STEP /\ LastCmd <= CMD_STEPOUT_TU ) =>
        LET dir == StepDir(PreCtx, LastCmd)
        IN  /\ Ctx.last_step_dir = dir
            /\ Ctx.track = Clamp(PreCtx.track + dir, 0, PreCtx.geom_tracks - 1)
            /\ PreCtx.track + dir > PreCtx.geom_tracks - 1 =>
                  BitAnd(Ctx.status, 16) = 16
            /\ Ctx.track_reg = IF BitAnd(LastCmd, 16) = 16 THEN Ctx.track
                               ELSE PreCtx.track_reg

\* C23: a FORCE INTERRUPT command on a loaded image sets status = 0x20 |
\* (0x40 if the image is not writeable) | (0x04 if track = 0), empties the
\* data buffer, and asserts IRQ if and only if bit 3 of the written command
\* byte is set.
C23_ForceInterrupt ==
    CommandIssued(CMD_FORCE_INTERRUPT) =>
        /\ Ctx.status = BitOr(BitOr(32, IF PreCtx.writeable THEN 0 ELSE 64),
                              IF PreCtx.track = 0 THEN 4 ELSE 0)
        /\ Ctx.data_pos = 0 /\ Ctx.data_len = 0
        /\ wd2797_get_irq(Ctx) <=> BitAnd(last.value, 8) = 8

\* the STATUS value the claim gives for context c: with cmd_has_drq, bits
\* 0x01 and 0x02 both (data_pos < data_len) and 0x80 ORed in while bytes
\* remain; without, only bit 0x01 replaced and the other bits as stored
ClaimedStatus(c) ==
    LET drq == c.data_pos < c.data_len
    IN  IF c.cmd_has_drq
        THEN BitOr(BitAnd(c.status, 252), IF drq THEN 131 ELSE 0)
        ELSE BitOr(BitAnd(c.status, 254), IF drq THEN 1 ELSE 0)

\* C24: in every reachable state a STATUS read returns the stored status
\* with, when cmd_has_drq is true, bits 0x01 and 0x02 replaced by
\* (data_pos < data_len) and 0x80 ORed in while bytes remain, and, when
\* cmd_has_drq is false, only bit 0x01 replaced and bits 0x02 and 0x80 as
\* stored (no bytes remain in a reachable state with cmd_has_drq false).
C24_StatusRead ==
    /\ StatusNow = ClaimedStatus(Ctx)
    /\ LastIs("read_reg", WD2797_REG_STATUS) =>
          last.data = ClaimedStatus(PreCtx)
    /\ ~Ctx.cmd_has_drq => ~wd2797_get_drq(Ctx)

\* a STATUS read during a READ ADDRESS transfer: stored status 0x02, read 0x83
C24_Witness ==
    /\ LastIs("read_reg", WD2797_REG_STATUS)
    /\ PreCtx.cmd_has_drq /\ wd2797_get_drq(PreCtx)
    /\ PreCtx.status = 2 /\ last.data = 131

\* the status the last command was rejected with, 0 if it was not rejected
RejectStatus ==
    IF ~CommandWritten \/ PreCtx.disc_image = NULL THEN 0
    ELSE IF /\ LastCmd \in {CMD_READ_SECTOR, CMD_READ_SECTOR_MULTI}
            /\ ~ValidChs(PreCtx, last.value)
    THEN 16
    ELSE IF /\ LastCmd \in {CMD_WRITE_SECTOR, CMD_WRITE_SECTOR_MULTI,
                            CMD_FORMAT_TRACK}
            /\ ~PreCtx.writeable
    THEN 64
    ELSE IF LastCmd = CMD_READ_TRACK THEN 16
    ELSE 0

\* C25: whenever a command is rejected with an error status (READ SECTOR
\* with a CHS out of range: 0x10; WRITE SECTOR or FORMAT TRACK on a
\* non-writeable image: 0x40; READ TRACK: 0x10), IRQ is asserted and no data
\* transfer is pending after the command: data_pos = data_len and DRQ is
\* false, even if an earlier transfer was still in flight.
C25_RejectedCommand ==
    RejectStatus # 0 =>
        /\ Ctx.status = RejectStatus
        /\ wd2797_get_irq(Ctx)
        /\ Ctx.data_pos = Ctx.data_len
        /\ ~wd2797_get_drq(Ctx)

(***************************************************************************)
(* Properties of the general status and DMA address registers (checked     *)
(* under CtlSpec).                                                         *)
(***************************************************************************)
\* the last bus cycle was a write to GENSTAT that reached the register
GenstatWritten ==
    /\ last.op = "write" /\ last.addr \in {ADDR_GENSTAT, ADDR_GENSTAT + 1}
    /\ last.pre.romlmap /\ ~last.fault

\* C27: an 8-bit write to GENSTAT affects exactly one byte of genstat: the
\* byte the address selects (even: high, odd: low) takes the written value
\* and the other byte keeps its previous value; a 16-bit write replaces the
\* whole register with the low 16 bits of the data.
C27_GenstatWrite ==
    GenstatWritten =>
        /\ last.bits = 8 =>
              state.genstat =
                  IF last.addr % 2 = 0
                  THEN U8(last.value) * 256 + (last.pre.genstat % 256)
                  ELSE (last.pre.genstat \div 256) * 256 + U8(last.value)
        /\ last.bits = 16 => state.genstat = last.value % 65536

\* the last bus cycle was a write to the DMA address register that reached it
DmaAddrWritten ==
    /\ last.op = "write" /\ last.addr \in DmaAddrs
    /\ last.pre.romlmap /\ ~last.fault

\* the high-half and low-half addresses of the DMA address register
DmaHighAddrs == {a \in DmaAddrs : BitAnd(a, 16384) = 16384}

DmaLowAddrs == DmaAddrs \ DmaHighAddrs

\* dma_address after supervisor writes of v1 to address a1, then v2 to a2
DmaAfter(st, a1, v1, a2, v2) ==
    SuperWrite16(SuperWrite16(st, a1, v1), a2, v2).dma_address

\* C28: a write to the DMA address register with address bit 14 set replaces
\* only the high part of dma_address (bits 9 and up) with (addr & 0x3FFE) << 8
\* and leaves bits 1-8 unchanged; with address bit 14 clear it replaces only
\* the low part with addr & 0x1FE and leaves the high part unchanged; the
\* data value has no effect, so a high-half write and a low-half write yield
\* the same dma_address in either order.
C28_DmaAddress ==
    /\ DmaAddrWritten =>
          LET old == last.pre.dma_address
              new == state.dma_address
          IN  IF last.addr \in DmaHighAddrs
              THEN /\ new \div 512 = Shl(BitAnd(last.addr, 16382), 8) \div 512
                   /\ new % 512 = old % 512
              ELSE /\ new % 512 = BitAnd(last.addr, 510)
                   /\ new \div 512 = old \div 512
    /\ state.romlmap =>
          \A h \in DmaHighAddrs, l \in DmaLowAddrs :
              /\ DmaAfter(state, h, 4660, l, 65535)
                     = DmaAfter(state, l, 0, h, 4660)
              /\ DmaAfter(state, h, 4660, l, 65535)
                     = Shl(BitAnd(h, 16382), 8) + BitAnd(l, 510)

\* a low-half write after a high-half write: dma_address = 0x2AAA54
C28_Witness ==
    /\ DmaAddrWritten /\ last.addr = ADDR_DMAADDR + 15956
    /\ last.pre.dma_address = 2796032
    /\ state.dma_address = 2796116

(***************************************************************************)
(* Properties of transfers on a write-protected image and of the           *)
(* formatting flag.                                                        *)
(***************************************************************************)
\* C29: a non-writeable image is never modified: in every state reached on
\* an image loaded with writeable = false the image file holds the bytes it
\* was loaded with; in particular a DATA-register write made while a READ
\* SECTOR transfer is pending is not stored into the buffer.
C29_WriteProtected ==
    (Ctx.disc_image # NULL /\ ~Ctx.writeable) =>
        /\ Ctx.disc_image = GoodImage
        /\ ( /\ LastIs("write_reg", WD2797_REG_DATA)
             /\ xfer.kind = "rd" /\ wd2797_get_drq(PreCtx) ) =>
              Ctx.data = PreCtx.data

\* the last operation ends or replaces a FORMAT TRACK transfer: a command
\* other than FORMAT TRACK on a loaded image, wd2797_reset or a DMA miss
EndsFormat ==
    \/ CommandWritten /\ PreCtx.disc_image # NULL
                      /\ LastCmd # CMD_FORMAT_TRACK
    \/ last.op \in {"reset", "dma_miss"}

\* C30: the formatting flag is true only while a FORMAT TRACK transfer is
\* pending: in every reachable state formatting implies data_pos < data_len
\* with the length of a FORMAT TRACK transfer, and every operation that ends
\* or replaces that transfer (a Type-1 command, FORCE INTERRUPT, a new
\* Type-2/3 command, wd2797_reset, a DMA miss) leaves formatting false.
C30_FormattingFlag ==
    /\ Ctx.formatting =>
          /\ Ctx.data_pos < Ctx.data_len
          /\ Ctx.data_len = FORMAT_TRACK_LEN
    /\ EndsFormat => ~Ctx.formatting

(***************************************************************************)
(* Properties of serviced transfers (checked under ServeSpec, ServeLive).  *)
(***************************************************************************)
\* the last operation was the DATA-register write that flushed the buffer of
\* a write transfer to the image
Flushed ==
    /\ LastIs("write_reg", WD2797_REG_DATA)
    /\ PreCtx.data_pos + 1 = PreCtx.data_len
    /\ PreCtx.write_pos >= 0
    /\ ~PreCtx.formatting

\* the size of the loaded image according to its geometry
ImageSize(c) == c.geom_tracks * c.geom_heads * c.geom_spt * c.geom_secsz

\* C31: every flush of the data buffer to the image stays inside the image:
\* when the final DATA write of a WRITE SECTOR or WRITE SECTOR MULTI transfer
\* writes data_len bytes at write_pos, 0 <= write_pos and write_pos +
\* data_len <= tracks * heads * spt * secsz, whatever was written to the
\* TRACK and SECTOR registers.
C31_FlushInsideImage ==
    Flushed =>
        /\ 0 <= PreCtx.write_pos
        /\ PreCtx.write_pos + PreCtx.data_len <= ImageSize(PreCtx)

\* an accepted transfer command has just left DRQ asserted
TransferStarted ==
    LastIs("write_reg", WD2797_REG_COMMAND) /\ wd2797_get_drq(Ctx)

\* C32: every accepted data-transfer command completes: after a command that
\* left DRQ asserted, a host that keeps servicing the DATA register in the
\* command's direction eventually sees DRQ deasserted and IRQ asserted, for
\* every value of the TRACK and SECTOR registers.
C32_TransferCompletes ==
    TransferStarted ~> (~wd2797_get_drq(Ctx) /\ wd2797_get_irq(Ctx))

(***************************************************************************)
(* Bus cycles that the access check refuses.                               *)
(***************************************************************************)
MaxFaultOps == 1

\* the addresses the CPU issues: page 0 (kernel), page 0x100 (even, odd),
\* page 0x102 (dirty, read-only), the DMACOUNT and DISKCON registers
FaultAddrs == {0, 1048576, 1048577, 1056768, ADDR_DMACOUNT, ADDR_DISKCON}

\* the machine after the boot code's set-up, with the controller idle, in a
\* READ SECTOR or in a FORMAT TRACK
FaultInit ==
    /\ \E ram \in RamConfigs, e \in Page100Entries, pie \in BOOLEAN,
          i \in 1..3 :
             state = WithCtx(Setup(ram, e, pie), FdcContexts[i])
    /\ last = Op("init", 0, 0, 0, 0, 0, FALSE, state)
    /\ xfer = NoXfer
    /\ ops = 0

FaultRead ==
    \E bits \in Widths, addr \in FaultAddrs, sr \in SRs,
       junk \in JunkChoices(state.fdc_ctx) :
        LET r == m68k_read_memory(bits, state, sr, addr, junk)
        IN  /\ ops < MaxFaultOps
            /\ Aligned(bits, addr)
            /\ state' = r.state
            /\ last' = Op("read", bits, addr, 0, sr, r.data, r.fault, state)
            /\ ops' = ops + 1
            /\ UNCHANGED xfer

FaultWrite ==
    \E bits \in Widths, addr \in FaultAddrs, sr \in SRs,
       junk \in JunkChoices(state.fdc_ctx) :
        \E value \in WriteVals(bits) :
            LET r == m68k_write_memory(bits, state, sr, addr, value, junk)
            IN  /\ ops < MaxFaultOps
                /\ Aligned(bits, addr)
                /\ state' = r.state
                /\ last' = Op("write", bits, addr, value, sr, 0, r.fault, state)
                /\ ops' = ops + 1
                /\ UNCHANGED xfer

FaultNext == FaultRead \/ FaultWrite

FaultSpec == FaultInit /\ [][FaultNext]_vars

(***************************************************************************)
(* Properties of refused bus cycles (checked under FaultSpec).             *)
(***************************************************************************)
\* C34: a bus cycle that raises a bus error changes nothing except genstat,
\* bsr0 and bsr1: base RAM, expansion RAM, video RAM, every map-RAM entry
\* (the referenced/dirty bits of the addressed page included), the DMA and
\* control registers and the FDC state are the same before and after the
\* faulting read or write, for all widths.
C34_FaultFrame ==
    (IsBusOp /\ last.fault) =>
        state = [last.pre EXCEPT !.genstat = state.genstat,
                                 !.bsr0 = state.bsr0,
                                 !.bsr1 = state.bsr1]

\* a user-mode long-word write to a present page without write-enable has
\* been refused, with a transfer pending in the controller
C34_Witness ==
    /\ last.fault /\ last.sr = SR_USER
    /\ last.addr = 1048576
    /\ PageStatus(last.pre, 256) = 1
    /\ last.op = "write" /\ last.bits = 32
    /\ state.bsr0 # last.pre.bsr0
    /\ Ctx.cmd_has_drq

====
